---- MODULE Spec2Model ----
(***************************************************************************)
(* Generation Task Engine and Preview/Bulk Orchestrator of the             *)
(* test-generator backend (backend/app/services/case_generation.py).       *)
(*                                                                         *)
(* One parsed document (a list of TestPoint objects shared by every        *)
(* preview and task of its parse_id), the preview cache, the task          *)
(* registry, the generation records of the relational store, and the      *)
(* worker threads of _run_task with the batch workers they fan out to.     *)
(* The generation service and the persistence layer are external: each    *)
(* call either returns (with any well-formed or ill-formed value) or      *)
(* raises, chosen nondeterministically.                                    *)
(***************************************************************************)
EXTENDS Integers, Sequences, FiniteSets, TLC

VARIABLES
    doc,            \* index of the parsed document under test (fixed after Init)
    points,         \* parsed.test_points: point_id -> TestPoint (subtype/priority are back-filled in place)
    previews,       \* CaseGenerationManager._preview_cache: sequence of entries, preview_id = index
    tasks,          \* CaseGenerationManager._tasks: sequence of GenerationTask plus its worker's position
    records,        \* generation records of the store, by session_id (None = no row)
    enableRuleBatch, \* ENABLE_RULE_BATCH, read from the environment at import
    parse_tasks,    \* TaskManager._tasks: the document-parse tasks of /parse-doc, each with
                    \* the position of its pool worker and of the request that polls it
    call            \* one call of a function of the decoder, the encoders or the
                    \* preview selection: its name, argument, return value, and
                    \* whether it has returned (idle in the task engine's runs)

vars == <<doc, points, previews, tasks, records, enableRuleBatch, parse_tasks, call>>

None == "None"

(***************************************************************************)
(* Batch sizes.  The code's values are BATCH_SIZE = 80,                    *)
(* RULE_BATCH_SIZE = 20 and METADATA_BATCH_SIZE = 10                       *)
(* (case_generation.py:29,33,35); they enter the code only through        *)
(* _chunk_list and the comparison len(missing) > METADATA_BATCH_SIZE, and  *)
(* are scaled down here so that a document of a few points spans several  *)
(* batches.                                                                *)
(***************************************************************************)
BATCH_SIZE == 2
RULE_BATCH_SIZE == 2
METADATA_BATCH_SIZE == 2
RULE_BATCH_CONCURRENCY == 3
METADATA_BATCH_CONCURRENCY == 3

\* Number of submissions (tasks) and of previews explored.
MaxTasks == 2
MaxPreviews == 1

Max(a, b) == IF a >= b THEN a ELSE b
Min(a, b) == IF a <= b THEN a ELSE b

Range(s) == {s[i] : i \in 1..Len(s)}

\* [x for x in s if Keep(x)]
RECURSIVE FilterSeq(_, _)
FilterSeq(s, keep) ==
    IF s = <<>> THEN <<>>
    ELSE (IF Head(s) \in keep THEN <<Head(s)>> ELSE <<>>) \o FilterSeq(Tail(s), keep)

\* _chunk_list(items, size)
RECURSIVE _chunk_list(_, _)
_chunk_list(items, size) ==
    IF size <= 0 THEN <<items>>
    ELSE IF items = <<>> THEN <<>>
    ELSE <<SubSeq(items, 1, Min(size, Len(items)))>>
            \o _chunk_list(SubSeq(items, Min(size, Len(items)) + 1, Len(items)), size)

(***************************************************************************)
(* TestPoint.  point_id is the index in test_points.  context is the      *)
(* ancestor-title path ending in the section title, kept as               *)
(* <<step, section>>.  subtype is None, "positive" or "negative".          *)
(* priority is NoPriority (None), 1, 2, 3, or Bad: a value the metadata    *)
(* service returned that is truthy but that TestCase's schema              *)
(* (priority: Optional[int]) rejects; fill_missing_metadata assigns it     *)
(* without validation.                                                     *)
(***************************************************************************)
NoPriority == 0
Bad == -1
SectionOf(point_type) ==
    CASE point_type = "process" -> "business_process"
      [] point_type = "rule" -> "business_rule"
      [] OTHER -> "page_control"

TP(type, step, subtype, priority) ==
    [point_type |-> type, context |-> <<step, SectionOf(type)>>,
     subtype |-> subtype, priority |-> priority]

\* The parsed documents explored.
Docs == <<
    \* every point lacks metadata: more missing points than one metadata
    \* batch holds
    << TP("process", "s1", None, NoPriority), TP("rule", "s1", None, NoPriority),
       TP("rule", "s1", "positive", NoPriority) >>,
    \* a process point, three generatable rule points (more than one rule
    \* batch holds) of which one lacks metadata, a page control point and
    \* a lowest-tier rule point
    << TP("process", "s1", "positive", 1), TP("rule", "s1", "negative", 1),
       TP("rule", "s1", "positive", 2),    TP("rule", "s2", None, NoPriority),
       TP("page_control", "s1", "positive", 2), TP("rule", "s2", "negative", 3) >>
    >>

PointIds == DOMAIN points
test_points == [i \in 1..Len(Docs[doc]) |-> i]

\* _normalize_context_key
_normalize_context_key(context) ==
    <<context[1], IF context[2] = "business_rule" THEN "business_process" ELSE context[2]>>

\* not (p.subtype and p.priority)
MissingMeta(p) == p.subtype = None \/ p.priority = NoPriority

\* TestCase(...) validates priority: Optional[int]
ValidForCase(p) == p.priority # Bad

(***************************************************************************)
(* The metadata service's answer for one point: the item's subtype and     *)
(* priority.  Three answers are explored: two well-formed ones (highest    *)
(* and lowest tier) and one whose priority TestCase rejects.               *)
(***************************************************************************)
MetaAnswers ==
    { [subtype |-> "positive", priority |-> 1],
      [subtype |-> "negative", priority |-> 3],
      [subtype |-> "positive", priority |-> Bad] }

\* point.subtype = point.subtype or meta.get("subtype"); same for priority
ApplyMeta(p, meta) ==
    [p EXCEPT !.subtype = IF p.subtype # None THEN p.subtype ELSE meta.subtype,
              !.priority = IF p.priority # NoPriority THEN p.priority ELSE meta.priority]

\* the loop over a batch in fill_missing_metadata: result_map is a function
\* on the point_ids the service answered
ApplyResultMap(pts, batch, result_map) ==
    [i \in DOMAIN pts |->
        IF i \in Range(batch) /\ i \in DOMAIN result_map
        THEN ApplyMeta(pts[i], result_map[i]) ELSE pts[i]]

(***************************************************************************)
(* select_preview_points                                                   *)
(***************************************************************************)
priority_rank(priority) ==
    CASE priority = 1 -> 0 [] priority = 2 -> 1 [] priority = 3 -> 2 [] OTHER -> 3

\* order of the strings "page_control" < "process" < "rule"
TypeOrder(point_type) ==
    CASE point_type = "page_control" -> 0 [] point_type = "process" -> 1 [] OTHER -> 2

\* order of the strings "" < "negative" < "positive"
SubtypeOrder(subtype) ==
    CASE subtype = None -> 0 [] subtype = "negative" -> 1 [] OTHER -> 2

\* sort_key(p) precedes sort_key(q) in tuple order
KeyLess(p, q) ==
    \/ priority_rank(p.priority) < priority_rank(q.priority)
    \/ /\ priority_rank(p.priority) = priority_rank(q.priority)
       /\ \/ TypeOrder(p.point_type) < TypeOrder(q.point_type)
          \/ /\ TypeOrder(p.point_type) = TypeOrder(q.point_type)
             /\ SubtypeOrder(p.subtype) < SubtypeOrder(q.subtype)

\* sorted(points, key=sort_key): stable
RECURSIVE InsertSorted(_, _, _)
InsertSorted(pts, sorted, x) ==
    IF sorted = <<>> THEN <<x>>
    ELSE IF KeyLess(pts[x], pts[Head(sorted)]) THEN <<x>> \o sorted
    ELSE <<Head(sorted)>> \o InsertSorted(pts, Tail(sorted), x)

RECURSIVE SortByKey(_, _)
SortByKey(pts, ids) ==
    IF ids = <<>> THEN <<>>
    ELSE InsertSorted(pts, SortByKey(pts, SubSeq(ids, 1, Len(ids) - 1)), ids[Len(ids)])

\* count: Optional[int] as a sequence, <<>> for None and <<n>> for n.
\* target = count or 4; target = max(3, min(5, target))
PreviewTarget(count) ==
    Max(3, Min(5, IF count = <<>> \/ count[1] = 0 THEN 4 ELSE count[1]))

select_preview_points(pts, ids, count) ==
    IF ids = <<>> THEN <<>>
    ELSE SubSeq(SortByKey(pts, ids), 1, Min(Len(ids), PreviewTarget(count)))

(***************************************************************************)
(* GenerationTask (dataclass) together with the position of the worker     *)
(* that runs _run_task for it.  cases holds the point_id of each TestCase  *)
(* in list order; progress is the fraction <<numerator, denominator>>.     *)
(*   pc          where _run_task stands                                    *)
(*   mjobs       one entry per metadata batch of fill_missing_metadata     *)
(*   pbatches    process_batches, pidx the loop index of the next one      *)
(*   flow        flow_steps_map as pairs <<normalized context, point_id>>  *)
(*   rjobs       one entry per rule batch                                  *)
(*   exc         the exception travelling from future.result() to the      *)
(*               except block                                              *)
(*   seed_preview  the preview_id whose cases seeded the task (history)    *)
(***************************************************************************)
SessionIds == 1..MaxTasks

NoRow == [status |-> None, success_count |-> 0, fail_count |-> 0, json_path |-> FALSE]

NewTask(pts, initial_cases, session_id, generation_mode, seed_preview, submitted) ==
    [session_id |-> session_id, generation_mode |-> generation_mode,
     seed_preview |-> seed_preview,
     points |-> pts, status |-> "pending",
     progress |-> IF initial_cases # <<>>
                  THEN <<Len(initial_cases), Max(1, Len(pts) + Len(initial_cases))>>
                  ELSE <<0, 1>>,
     total |-> Len(pts) + Len(initial_cases),
     completed |-> Len(initial_cases), failed |-> 0,
     cases |-> initial_cases, error |-> None,
     pc |-> IF submitted THEN "queued" ELSE "unsubmitted",
     mjobs |-> <<>>, mconc |-> 0, pbatches |-> <<>>, pidx |-> 0, ridx |-> 0, flow |-> {},
     rbatches |-> <<>>, rjobs |-> <<>>, exc |-> None]

\* uuid4().hex when the caller passes no session_id
FreshSession == Len(tasks) + 1

\* create_generation_task whose store call sets the status of an existing
\* row and leaves its counters and artifact path as they are
create_generation_task_KeepRow(pts, initial_cases, session_id, generation_mode, seed_preview) ==
    \E stored \in BOOLEAN :
        /\ tasks' = Append(tasks, NewTask(pts, initial_cases, session_id, generation_mode,
                                          seed_preview, stored))
        /\ records' = IF stored
                      THEN [records EXCEPT ![session_id].status = "pending"]
                      ELSE records

\* create_generation_task.  The task is registered, then the generation
\* record is created or reset, then the task is submitted to the executor;
\* when the store raises, the exception leaves the function before submit.
create_generation_task(pts, initial_cases, session_id, generation_mode, seed_preview) ==
    \E stored \in BOOLEAN :
        /\ tasks' = Append(tasks, NewTask(pts, initial_cases, session_id, generation_mode,
                                          seed_preview, stored))
        /\ records' = IF stored
                      THEN [records EXCEPT ![session_id] =
                               [status |-> "pending", success_count |-> 0,
                                fail_count |-> 0, json_path |-> FALSE]]
                      ELSE records

\* create_task_for_parse
CreateTaskForParse(limit) ==
    /\ Len(tasks) < limit
    /\ \E session_id \in {FreshSession} \cup {tasks[i].session_id : i \in 1..Len(tasks)} :
          create_generation_task(FilterSeq(test_points, {p \in PointIds : points[p].priority # 3}),
                                 <<>>, session_id, "bulk", 0)
    /\ UNCHANGED <<call, doc, points, previews, enableRuleBatch, parse_tasks>>

\* The net effect of fill_missing_metadata(pts) when it runs to its end in
\* the caller's thread: every missing point is answered by some request of
\* the batch/retry/split sequence or by none.
FillOutcomes(ids) ==
    LET missing == {p \in Range(ids) : MissingMeta(points[p])}
    IN  { ApplyResultMap(points, ids, result_map) :
            result_map \in UNION { [S -> MetaAnswers] : S \in SUBSET missing } }

\* generate_preview.  Any exception of generate_case leaves the function
\* before create_preview; the metadata already written stays.
GeneratePreview(count) ==
    /\ Len(previews) < MaxPreviews
    /\ LET generatable_points == FilterSeq(test_points, {p \in PointIds : points[p].priority # 3})
       IN  /\ generatable_points # <<>>
           /\ \E filled \in FillOutcomes(generatable_points), served \in BOOLEAN :
                 LET selected_points == select_preview_points(filled, generatable_points, count)
                     ok == served /\ \A p \in Range(selected_points) : ValidForCase(filled[p])
                 IN  /\ points' = filled
                     /\ previews' = IF ok
                                    THEN Append(previews, [cases |-> selected_points,
                                                           point_ids |-> Range(selected_points)])
                                    ELSE previews
    /\ UNCHANGED <<call, doc, tasks, records, enableRuleBatch, parse_tasks>>

\* remaining_points without the exclusion of the previewed point_ids
remaining_points_NoExclusion(preview) ==
    FilterSeq(test_points, {p \in PointIds : points[p].priority # 3})

\* Lines 534-538 of create_task_from_preview
remaining_points(preview) ==
    FilterSeq(test_points,
              {p \in PointIds : p \notin preview.point_ids /\ points[p].priority # 3})

\* create_task_from_preview.  The cache entry is read, not removed.
CreateTaskFromPreview(preview_id, limit) ==
    /\ Len(tasks) < limit
    /\ preview_id \in DOMAIN previews
    /\ LET preview == previews[preview_id]
       IN  \E session_id \in {FreshSession} \cup {tasks[i].session_id : i \in 1..Len(tasks)} :
              create_generation_task(remaining_points(preview), preview.cases, session_id,
                                     "preview", preview_id)
    /\ UNCHANGED <<call, doc, points, previews, enableRuleBatch, parse_tasks>>

(***************************************************************************)
(* _run_task                                                               *)
(***************************************************************************)
\* repository.update_generation_record: no row, no change
update_generation_record(recs, session_id, status, success_count, fail_count, json_path) ==
    IF recs[session_id].status = None THEN recs
    ELSE [recs EXCEPT ![session_id] =
            [status |-> status, success_count |-> success_count,
             fail_count |-> fail_count, json_path |-> json_path]]

\* at, field and loaded are the position of the task's thread in the loop
\* that writes the batch's answers into the points: the point and the
\* attribute of the assignment it executes, and the attribute's value once
\* the right-hand side has read it (<<>> before that)
NewMetaJob(batch) ==
    [batch |-> batch, state |-> "queued", stack |-> <<[batch |-> batch, attempt |-> 1]>>,
     result_map |-> <<>>, at |-> 1, field |-> "subtype", loaded |-> <<>>]

\* Lines 636-652 and 229-243: the worker picks the task up, marks it
\* processing, updates the record (outside the try block: when the store
\* raises, the exception leaves _run_task), then fill_missing_metadata
\* computes the missing points and their batches.
RunBegin(t) ==
    /\ tasks[t].pc = "queued"
    /\ \E stored \in BOOLEAN :
        LET task == tasks[t]
            missing == FilterSeq(task.points, {p \in PointIds : MissingMeta(points[p])})
            batches == _chunk_list(missing, METADATA_BATCH_SIZE)
        IN  IF stored
            THEN /\ records' = update_generation_record(records, task.session_id, "processing",
                                    records[task.session_id].success_count,
                                    records[task.session_id].fail_count,
                                    records[task.session_id].json_path)
                 /\ tasks' = [tasks EXCEPT ![t].status = "processing", ![t].pc = "meta",
                        ![t].mjobs = [i \in 1..Len(batches) |-> NewMetaJob(batches[i])],
                        ![t].mconc = IF Len(missing) > METADATA_BATCH_SIZE
                                     THEN Max(1, Min(METADATA_BATCH_CONCURRENCY, Len(batches)))
                                     ELSE 1]
            ELSE /\ records' = records
                 /\ tasks' = [tasks EXCEPT ![t].status = "processing", ![t].pc = "crashed"]
    /\ UNCHANGED <<call, doc, points, previews, enableRuleBatch, parse_tasks>>

\* A pool of `workers` threads takes the jobs in submission order.
MayRun(jobs, i, workers) ==
    \/ jobs[i].state = "running"
    \/ /\ jobs[i].state = "queued"
       /\ \A j \in 1..(i - 1) : jobs[j].state # "queued"
       /\ Cardinality({j \in DOMAIN jobs : jobs[j].state = "running"}) < workers

\* What _request_metadata_batch(batch, attempt) does after its request failed.
MetaFramesOnFailure(batch, attempt) ==
    IF Len(batch) > 1
    THEN <<[batch |-> SubSeq(batch, 1, Len(batch) \div 2), attempt |-> attempt + 1],
           [batch |-> SubSeq(batch, Len(batch) \div 2 + 1, Len(batch)), attempt |-> attempt + 1]>>
    ELSE IF attempt < 2 THEN <<[batch |-> batch, attempt |-> attempt + 1]>>
    ELSE <<>>

\* ... and after it returned items for the points of `answered` only.
MetaFramesOnAnswer(batch, attempt, answered) ==
    LET missing_points == FilterSeq(batch, Range(batch) \ answered)
    IN  IF missing_points # <<>> /\ attempt < 2
        THEN <<[batch |-> missing_points, attempt |-> attempt + 1]>>
        ELSE <<>>

\* One request of _request_metadata_batch: the innermost pending call of
\* job i sends its batch; the service raises (or returns a non-array), or
\* returns items for a subset of the batch.
MetaRequest(t, i) ==
    /\ tasks[t].pc = "meta"
    /\ i \in DOMAIN tasks[t].mjobs
    /\ MayRun(tasks[t].mjobs, i, tasks[t].mconc)
    /\ LET job == tasks[t].mjobs[i]
           frame == Head(job.stack)
       IN  \E failed \in BOOLEAN, answered \in SUBSET Range(frame.batch) :
           \E answers \in [answered -> MetaAnswers] :
             /\ failed => answered = {}
             /\ LET frames == IF failed THEN MetaFramesOnFailure(frame.batch, frame.attempt)
                              ELSE MetaFramesOnAnswer(frame.batch, frame.attempt, answered)
                    stack == frames \o Tail(job.stack)
                IN  tasks' = [tasks EXCEPT ![t].mjobs[i] =
                        [job EXCEPT !.stack = stack,
                                    !.state = IF stack = <<>> THEN "done" ELSE "running",
                                    !.result_map = answers @@ @]]
    /\ UNCHANGED <<call, doc, points, previews, records, enableRuleBatch, parse_tasks>>

\* Lines 244-254 / 257-263: the task's thread takes a finished batch and
\* writes the answers into the points.
MetaJoin(t, i) ==
    /\ tasks[t].pc = "meta"
    /\ i \in DOMAIN tasks[t].mjobs
    /\ tasks[t].mjobs[i].state = "done"
    /\ points' = ApplyResultMap(points, tasks[t].mjobs[i].batch, tasks[t].mjobs[i].result_map)
    /\ tasks' = [tasks EXCEPT ![t].mjobs[i].state = "joined", ![t].mjobs[i].result_map = <<>>]
    /\ UNCHANGED <<call, doc, previews, records, enableRuleBatch, parse_tasks>>

\* `unset` for the attribute: None for subtype, None or 0 for priority
Falsy(field) == IF field = "subtype" THEN None ELSE NoPriority

\* The loop of lines 249-254 / 260-263 one assignment at a time, for the
\* runs in which several threads fill the same TestPoint objects.  The
\* right-hand side of `point.subtype = point.subtype or meta.get("subtype")`
\* reads the attribute; a point without an item in result_map is skipped.
MetaLoad(t, i) ==
    /\ tasks[t].pc = "meta"
    /\ i \in DOMAIN tasks[t].mjobs
    /\ tasks[t].mjobs[i].state = "done"
    /\ tasks[t].mjobs[i].loaded = <<>>
    /\ LET job == tasks[t].mjobs[i]
       IN  tasks' = [tasks EXCEPT ![t].mjobs[i] =
              IF job.at > Len(job.batch) THEN [job EXCEPT !.state = "joined", !.result_map = <<>>]
              ELSE IF job.batch[job.at] \notin DOMAIN job.result_map
              THEN [job EXCEPT !.at = @ + 1]
              ELSE [job EXCEPT !.loaded = <<points[job.batch[job.at]][job.field]>>]]
    /\ UNCHANGED <<call, doc, points, previews, records, enableRuleBatch, parse_tasks>>

\* ... and the assignment stores the value read, or the item's value when
\* the value read was unset.
MetaStore(t, i) ==
    /\ tasks[t].pc = "meta"
    /\ i \in DOMAIN tasks[t].mjobs
    /\ tasks[t].mjobs[i].loaded # <<>>
    /\ LET job == tasks[t].mjobs[i]
           point == job.batch[job.at]
           value == IF job.loaded[1] # Falsy(job.field) THEN job.loaded[1]
                    ELSE job.result_map[point][job.field]
       IN  /\ points' = [points EXCEPT ![point][job.field] = value]
           /\ tasks' = [tasks EXCEPT ![t].mjobs[i] =
                  [job EXCEPT !.loaded = <<>>,
                              !.field = IF job.field = "subtype" THEN "priority" ELSE "subtype",
                              !.at = IF job.field = "subtype" THEN @ ELSE @ + 1]]
    /\ UNCHANGED <<call, doc, previews, records, enableRuleBatch, parse_tasks>>

\* MetaFinish that does not wait for the metadata batches
MetaFinish_NoJoin(t) ==
    /\ tasks[t].pc = "meta"
    /\ LET process_points ==
               FilterSeq(tasks[t].points, {p \in PointIds : points[p].point_type = "process"})
       IN  tasks' = [tasks EXCEPT ![t].pc = "process", ![t].pidx = 1,
                        ![t].pbatches = _chunk_list(process_points, BATCH_SIZE)]
    /\ UNCHANGED <<call, doc, points, previews, records, enableRuleBatch, parse_tasks>>

\* Lines 657-668: every metadata batch is joined; the process batches are cut.
MetaFinish(t) ==
    /\ tasks[t].pc = "meta"
    /\ \A i \in DOMAIN tasks[t].mjobs : tasks[t].mjobs[i].state = "joined"
    /\ LET process_points ==
               FilterSeq(tasks[t].points, {p \in PointIds : points[p].point_type = "process"})
       IN  tasks' = [tasks EXCEPT ![t].pc = "process", ![t].pidx = 1,
                        ![t].pbatches = _chunk_list(process_points, BATCH_SIZE)]
    /\ UNCHANGED <<call, doc, points, previews, records, enableRuleBatch, parse_tasks>>

\* AfterBatch with progress computed from the points of this run only
\* (the seed cases left out of the numerator)
AfterBatch_RunOnly(task, batch, cases) ==
    [task EXCEPT !.cases = @ \o cases,
                 !.completed = @ + Len(cases),
                 !.failed = @ + (Len(batch) - Len(cases)),
                 !.progress = <<task.completed + Len(cases) + task.failed + (Len(batch) - Len(cases))
                                    - (task.total - Len(task.points)),
                                Max(1, task.total)>>]

\* AfterBatch that counts every point of the batch as completed
AfterBatch_CountBatch(task, batch, cases) ==
    [task EXCEPT !.cases = @ \o cases,
                 !.completed = @ + Len(batch),
                 !.failed = @ + (Len(batch) - Len(cases)),
                 !.progress = <<task.completed + Len(cases) + task.failed + (Len(batch) - Len(cases)),
                                Max(1, task.total)>>]

\* The bookkeeping after a batch returned `cases` (lines 677-692, 720-731,
\* 741-752).
AfterBatch(task, batch, cases) ==
    [task EXCEPT !.cases = @ \o cases,
                 !.completed = @ + Len(cases),
                 !.failed = @ + (Len(batch) - Len(cases)),
                 !.progress = <<task.completed + Len(cases) + task.failed + (Len(batch) - Len(cases)),
                                Max(1, task.total)>>]

\* generate_cases_batch with enable_batch=False: one generate_case per
\* point; every exception (service failure, rejected TestCase) is caught
\* and the point yields no case.
SingleModeResults(batch) ==
    { FilterSeq(batch, ok) : ok \in SUBSET {p \in Range(batch) : ValidForCase(points[p])} }

\* flow_steps_map.setdefault(key, []).extend(case.steps) for the cases of a batch
AddFlowSteps(flow, cases) ==
    flow \cup { <<_normalize_context_key(points[p].context), p>> : p \in Range(cases) }

\* Lines 670-692: one iteration of the process-batch loop.
ProcessBatch(t) ==
    /\ tasks[t].pc = "process"
    /\ tasks[t].pidx <= Len(tasks[t].pbatches)
    /\ LET batch == tasks[t].pbatches[tasks[t].pidx]
       IN  \E cases \in SingleModeResults(batch) :
             tasks' = [tasks EXCEPT ![t] =
                 [AfterBatch(tasks[t], batch, cases) EXCEPT
                     !.flow = AddFlowSteps(tasks[t].flow, cases),
                     !.pidx = @ + 1]]
    /\ UNCHANGED <<call, doc, points, previews, records, enableRuleBatch, parse_tasks>>

\* A rule batch handed to the rule_batch pool (the call stack of
\* generate_cases_batch is the list of sub-batches still to request).
\* batch_calls, single_calls and all_failed are history: the batch and
\* single-point requests sent, and whether every request so far raised.
NewRuleJob(batch) ==
    [batch |-> batch, state |-> "queued", stack |-> <<batch>>, cases |-> <<>>,
     error |-> None, batch_calls |-> 0, single_calls |-> 0, all_failed |-> TRUE]

\* Lines 695-716: the process loop is over; the rule batches are cut and,
\* in batch mode, submitted to the rule_batch pool.
StartRuleStage(t) ==
    /\ tasks[t].pc = "process"
    /\ tasks[t].pidx > Len(tasks[t].pbatches)
    /\ LET rule_points ==
               FilterSeq(tasks[t].points, {p \in PointIds : points[p].point_type = "rule"})
           rule_batches ==
               _chunk_list(rule_points, IF enableRuleBatch THEN RULE_BATCH_SIZE ELSE BATCH_SIZE)
       IN  tasks' = [tasks EXCEPT
                ![t].rbatches = rule_batches,
                ![t].ridx = 1,
                ![t].pc = IF enableRuleBatch /\ rule_batches # <<>> THEN "rule" ELSE "rule_seq",
                ![t].rjobs = IF enableRuleBatch
                             THEN [i \in 1..Len(rule_batches) |-> NewRuleJob(rule_batches[i])]
                             ELSE <<>>]
    /\ UNCHANGED <<call, doc, points, previews, records, enableRuleBatch, parse_tasks>>

\* Lines 733-752: one iteration of the rule loop without batch mode.
RuleSeqBatch(t) ==
    /\ tasks[t].pc = "rule_seq"
    /\ tasks[t].ridx <= Len(tasks[t].rbatches)
    /\ LET batch == tasks[t].rbatches[tasks[t].ridx]
       IN  \E cases \in SingleModeResults(batch) :
             tasks' = [tasks EXCEPT ![t] =
                 [AfterBatch(tasks[t], batch, cases) EXCEPT !.ridx = @ + 1]]
    /\ UNCHANGED <<call, doc, points, previews, records, enableRuleBatch, parse_tasks>>

\* RuleCallFailed that sends a failed single-point batch once more before
\* it falls back to generate_case
RuleCallFailed_Resend(job, served) ==
    LET pts == Head(job.stack)
        mid == Len(pts) \div 2
    IN  IF Len(pts) > 1
        THEN [job EXCEPT !.batch_calls = @ + 1,
                         !.stack = <<SubSeq(pts, 1, mid), SubSeq(pts, mid + 1, Len(pts))>> \o Tail(@)]
        ELSE [job EXCEPT !.batch_calls = @ + 2,
                         !.single_calls = @ + 1,
                         !.all_failed = @ /\ ~served,
                         !.cases = IF served /\ ValidForCase(points[pts[1]]) THEN @ \o pts ELSE @,
                         !.stack = Tail(@)]

\* RuleCallFailed without the try block around the single-point fallback:
\* a failed generate_case leaves generate_cases_batch as an exception
RuleCallFailed_Uncaught(job, served) ==
    LET pts == Head(job.stack)
        mid == Len(pts) \div 2
    IN  IF Len(pts) > 1
        THEN [job EXCEPT !.batch_calls = @ + 1,
                         !.stack = <<SubSeq(pts, 1, mid), SubSeq(pts, mid + 1, Len(pts))>> \o Tail(@)]
        ELSE IF served /\ ValidForCase(points[pts[1]])
        THEN [job EXCEPT !.batch_calls = @ + 1,
                         !.single_calls = @ + 1,
                         !.all_failed = FALSE,
                         !.cases = @ \o pts,
                         !.stack = Tail(@)]
        ELSE [job EXCEPT !.batch_calls = @ + 1,
                         !.single_calls = @ + 1,
                         !.all_failed = @ /\ ~served,
                         !.state = "raised", !.error = "service failure", !.stack = <<>>]

\* generate_cases_batch(points, enable_batch=True), lines 339-380: the
\* batch request raised.  More than one point: the two halves are tried,
\* left first.  One point: generate_case is tried for it; `served` says
\* whether that request returned, and a rejected TestCase is caught like a
\* failed request.
RuleCallFailed(job, served) ==
    LET pts == Head(job.stack)
        mid == Len(pts) \div 2
    IN  IF Len(pts) > 1
        THEN [job EXCEPT !.batch_calls = @ + 1,
                         !.stack = <<SubSeq(pts, 1, mid), SubSeq(pts, mid + 1, Len(pts))>> \o Tail(@)]
        ELSE [job EXCEPT !.batch_calls = @ + 1,
                         !.single_calls = @ + 1,
                         !.all_failed = @ /\ ~served,
                         !.cases = IF served /\ ValidForCase(points[pts[1]]) THEN @ \o pts ELSE @,
                         !.stack = Tail(@)]

\* Lines 381-408: the batch request returned.  `answered` are the points
\* that have an item in the result (none when the result is not an
\* array); a TestCase is built for each, outside any try block.
RuleCallReturned(job, answered) ==
    LET pts == Head(job.stack)
    IN  IF \E p \in answered : ~ValidForCase(points[p])
        THEN [job EXCEPT !.batch_calls = @ + 1, !.all_failed = FALSE,
                         !.state = "raised", !.error = "validation error", !.stack = <<>>]
        ELSE [job EXCEPT !.batch_calls = @ + 1, !.all_failed = FALSE,
                         !.cases = @ \o FilterSeq(pts, answered),
                         !.stack = Tail(@)]

Settle(job) ==
    IF job.state = "raised" THEN job
    ELSE [job EXCEPT !.state = IF job.stack = <<>> THEN "done" ELSE "running"]

\* One batch request of a rule_batch pool worker (with the single-point
\* fallback that follows a failed request for one point).  The pool keeps
\* running its jobs while the task's thread leaves the with block.
RuleCall(t, i) ==
    /\ tasks[t].pc \in {"rule", "rule_exit"}
    /\ i \in DOMAIN tasks[t].rjobs
    /\ MayRun(tasks[t].rjobs, i,
              Max(1, Min(RULE_BATCH_CONCURRENCY, Len(tasks[t].rbatches))))
    /\ LET job == tasks[t].rjobs[i]
       IN  \E failed \in BOOLEAN, served \in BOOLEAN, answered \in SUBSET Range(Head(job.stack)) :
             /\ failed => answered = {}
             /\ ~failed => served
             /\ (failed /\ Len(Head(job.stack)) > 1) => served
             /\ tasks' = [tasks EXCEPT ![t].rjobs[i] =
                    Settle(IF failed THEN RuleCallFailed(job, served)
                           ELSE RuleCallReturned(job, answered))]
    /\ UNCHANGED <<call, doc, points, previews, records, enableRuleBatch, parse_tasks>>

\* RuleJoin whose bookkeeping starts from counters and cases read before
\* the last joined batch wrote its own (an update without mutual
\* exclusion: the earlier batch's update is lost)
RuleJoin_LostUpdate(t, i) ==
    /\ tasks[t].pc = "rule"
    /\ i \in DOMAIN tasks[t].rjobs
    /\ tasks[t].rjobs[i].state = "done"
    /\ LET task == tasks[t]
           joined == {j \in DOMAIN task.rjobs : task.rjobs[j].state = "joined"}
           stale == IF joined = {} THEN task
                    ELSE LET prev == task.rjobs[CHOOSE j \in joined : TRUE]
                         IN  [task EXCEPT
                                !.cases = SubSeq(@, 1, Len(@) - Len(prev.cases)),
                                !.completed = @ - Len(prev.cases),
                                !.failed = @ - (Len(prev.batch) - Len(prev.cases))]
       IN  tasks' = [tasks EXCEPT ![t] =
               [AfterBatch(stale, task.rjobs[i].batch, task.rjobs[i].cases)
                   EXCEPT !.rjobs[i].state = "joined"]]
    /\ UNCHANGED <<call, doc, points, previews, records, enableRuleBatch, parse_tasks>>

\* Lines 717-731: as_completed hands a finished batch to the task's thread.
RuleJoin(t, i) ==
    /\ tasks[t].pc = "rule"
    /\ i \in DOMAIN tasks[t].rjobs
    /\ tasks[t].rjobs[i].state = "done"
    /\ tasks' = [tasks EXCEPT ![t] =
            [AfterBatch(tasks[t], tasks[t].rjobs[i].batch, tasks[t].rjobs[i].cases)
                EXCEPT !.rjobs[i].state = "joined"]]
    /\ UNCHANGED <<call, doc, points, previews, records, enableRuleBatch, parse_tasks>>

\* Line 719: future.result() re-raises the worker's exception in the
\* task's thread, which leaves the loop and waits in the with block's exit
\* for the pool to shut down.
RuleJoinRaised(t, i) ==
    /\ tasks[t].pc = "rule"
    /\ i \in DOMAIN tasks[t].rjobs
    /\ tasks[t].rjobs[i].state = "raised"
    /\ tasks' = [tasks EXCEPT ![t].pc = "rule_exit", ![t].exc = tasks[t].rjobs[i].error]
    /\ UNCHANGED <<call, doc, points, previews, records, enableRuleBatch, parse_tasks>>

\* Lines 767-779, the except block: the task is marked failed and the
\* record updated; when that update raises too, the exception leaves
\* _run_task.
ExceptBlock(t, message, stored) ==
    /\ tasks' = [tasks EXCEPT ![t].status = "failed", ![t].error = message,
                              ![t].exc = None, ![t].pc = "done"]
    /\ records' = IF stored
                  THEN update_generation_record(records, tasks[t].session_id, "failed",
                           tasks[t].completed, tasks[t].failed,
                           records[tasks[t].session_id].json_path)
                  ELSE records

\* The pool has shut down; the worker's exception reaches the except block.
RulePoolExit(t) ==
    /\ tasks[t].pc = "rule_exit"
    /\ \A i \in DOMAIN tasks[t].rjobs : tasks[t].rjobs[i].state \in {"done", "joined", "raised"}
    /\ \E stored \in BOOLEAN : ExceptBlock(t, tasks[t].exc, stored)
    /\ UNCHANGED <<call, doc, points, previews, enableRuleBatch, parse_tasks>>

\* Lines 754-755: every rule batch is handled; the task is marked completed.
MarkCompleted(t) ==
    /\ \/ /\ tasks[t].pc = "rule"
          /\ \A i \in DOMAIN tasks[t].rjobs : tasks[t].rjobs[i].state = "joined"
       \/ /\ tasks[t].pc = "rule_seq"
          /\ tasks[t].ridx > Len(tasks[t].rbatches)
    /\ tasks' = [tasks EXCEPT ![t].status = "completed", ![t].pc = "persist"]
    /\ UNCHANGED <<call, doc, points, previews, records, enableRuleBatch, parse_tasks>>

\* Lines 757-766: the case list is saved and the record updated; an
\* exception of either call is caught by the except block of line 767.
Persist(t) ==
    /\ tasks[t].pc = "persist"
    /\ \/ /\ records' = update_generation_record(records, tasks[t].session_id, "completed",
                              tasks[t].completed, tasks[t].failed, TRUE)
          /\ tasks' = [tasks EXCEPT ![t].pc = "done"]
       \/ \E stored \in BOOLEAN : ExceptBlock(t, "persistence error", stored)
    /\ UNCHANGED <<call, doc, points, previews, enableRuleBatch, parse_tasks>>

(***************************************************************************)
(* Specifications                                                          *)
(***************************************************************************)
PreviewCounts == {<<>>, <<3>>}

\* no function call under observation
NoCall == [op |-> None, arg |-> None, ret |-> None, done |-> TRUE]

Init ==
    /\ doc \in DOMAIN Docs
    /\ points = Docs[doc]
    /\ previews = <<>>
    /\ tasks = <<>>
    /\ records = [s \in SessionIds |-> NoRow]
    /\ enableRuleBatch \in BOOLEAN
    /\ parse_tasks = <<>>
    /\ call = NoCall

\* The steps of the worker threads: _run_task and its batch pools.
RunTasks ==
    \/ \E t \in DOMAIN tasks : RunBegin(t)
    \/ \E t \in DOMAIN tasks : \E i \in DOMAIN tasks[t].mjobs : MetaRequest(t, i)
    \/ \E t \in DOMAIN tasks : \E i \in DOMAIN tasks[t].mjobs : MetaJoin(t, i)
    \/ \E t \in DOMAIN tasks : MetaFinish(t)
    \/ \E t \in DOMAIN tasks : ProcessBatch(t)
    \/ \E t \in DOMAIN tasks : StartRuleStage(t)
    \/ \E t \in DOMAIN tasks : RuleSeqBatch(t)
    \/ \E t \in DOMAIN tasks : \E i \in DOMAIN tasks[t].rjobs : RuleCall(t, i)
    \/ \E t \in DOMAIN tasks : \E i \in DOMAIN tasks[t].rjobs : RuleJoin(t, i)
    \/ \E t \in DOMAIN tasks : \E i \in DOMAIN tasks[t].rjobs : RuleJoinRaised(t, i)
    \/ \E t \in DOMAIN tasks : RulePoolExit(t)
    \/ \E t \in DOMAIN tasks : MarkCompleted(t)
    \/ \E t \in DOMAIN tasks : Persist(t)

\* One generation task, submitted for the whole document or by confirming
\* a preview, and run to its end by its worker.
Next ==
    \/ \E count \in PreviewCounts : GeneratePreview(count)
    \/ \E preview_id \in DOMAIN previews : CreateTaskFromPreview(preview_id, 1)
    \/ CreateTaskForParse(1)
    \/ RunTasks

Spec == Init /\ [][Next]_vars

\* The orchestrator alone: previews and submissions (several for one
\* preview or session); the submitted tasks wait in the executor's queue.
NextPreview ==
    \/ \E count \in PreviewCounts : GeneratePreview(count)
    \/ \E preview_id \in DOMAIN previews : CreateTaskFromPreview(preview_id, MaxTasks)
    \/ CreateTaskForParse(MaxTasks)

SpecPreview == Init /\ [][NextPreview]_vars

\* A session that is submitted again each time its run has ended, for a
\* document with one point without metadata and ENABLE_RULE_BATCH off.
Resubmit ==
    /\ \A t \in DOMAIN tasks : tasks[t].pc \in {"done", "crashed", "unsubmitted"}
    /\ CreateTaskForParse(MaxTasks)

InitSession == Init /\ doc = 2 /\ ~enableRuleBatch

NextSession ==
    \/ Resubmit
    \/ \E t \in DOMAIN tasks : RunBegin(t)
    \/ \E t \in DOMAIN tasks : \E i \in DOMAIN tasks[t].mjobs : MetaRequest(t, i)
    \/ \E t \in DOMAIN tasks : \E i \in DOMAIN tasks[t].mjobs : MetaJoin(t, i)
    \/ \E t \in DOMAIN tasks : MetaFinish(t)
    \/ \E t \in DOMAIN tasks : ProcessBatch(t)
    \/ \E t \in DOMAIN tasks : StartRuleStage(t)
    \/ \E t \in DOMAIN tasks : RuleSeqBatch(t)
    \/ \E t \in DOMAIN tasks : MarkCompleted(t)
    \/ \E t \in DOMAIN tasks : Persist(t)

SpecSession == InitSession /\ [][NextSession]_vars

\* A session that is submitted again at any time, also while its earlier
\* task is queued or running (the executor has three workers), for the
\* same document and mode as SpecSession.
NextOverlap ==
    \/ CreateTaskForParse(MaxTasks)
    \/ \E t \in DOMAIN tasks : RunBegin(t)
    \/ \E t \in DOMAIN tasks : \E i \in DOMAIN tasks[t].mjobs : MetaRequest(t, i)
    \/ \E t \in DOMAIN tasks : \E i \in DOMAIN tasks[t].mjobs : MetaJoin(t, i)
    \/ \E t \in DOMAIN tasks : MetaFinish(t)
    \/ \E t \in DOMAIN tasks : ProcessBatch(t)
    \/ \E t \in DOMAIN tasks : StartRuleStage(t)
    \/ \E t \in DOMAIN tasks : RuleSeqBatch(t)
    \/ \E t \in DOMAIN tasks : MarkCompleted(t)
    \/ \E t \in DOMAIN tasks : Persist(t)

SpecOverlap == InitSession /\ [][NextOverlap]_vars

\* Several tasks of one parsed document (the cached TestPoint objects are
\* shared by all of them) in their metadata stage at the same time, for
\* the document with one point without metadata.
InitFill == Init /\ doc = 2 /\ ~enableRuleBatch

NextFill ==
    \/ CreateTaskForParse(MaxTasks)
    \/ \E t \in DOMAIN tasks : RunBegin(t)
    \/ \E t \in DOMAIN tasks : \E i \in DOMAIN tasks[t].mjobs : MetaRequest(t, i)
    \/ \E t \in DOMAIN tasks : \E i \in DOMAIN tasks[t].mjobs : MetaLoad(t, i)
    \/ \E t \in DOMAIN tasks : \E i \in DOMAIN tasks[t].mjobs : MetaStore(t, i)

SpecFill == InitFill /\ [][NextFill]_vars

(***************************************************************************)
(* Strings.  A string is a sequence of symbols.  A symbol is one character *)
(* ("2", ".", " ") or, for the Chinese text the code handles, the          *)
(* romanised name of one character ("tong" "guo" for the word tong-guo,    *)
(* pass); the section titles, which the code only compares as a whole,     *)
(* are one symbol each: "business_process", "business_rule",               *)
(* "page_control", "basic_info", "data_check".                             *)
(***************************************************************************)
Space == " "

\* str.strip()
RECURSIVE LStrip(_)
LStrip(s) == IF s # <<>> /\ Head(s) = Space THEN LStrip(Tail(s)) ELSE s

RECURSIVE RStrip(_)
RStrip(s) == IF s # <<>> /\ s[Len(s)] = Space THEN RStrip(SubSeq(s, 1, Len(s) - 1)) ELSE s

Strip(s) == RStrip(LStrip(s))

\* word occurs in text at position i
OccursAt(word, text, i) ==
    /\ i >= 1 /\ i + Len(word) - 1 <= Len(text)
    /\ SubSeq(text, i, i + Len(word) - 1) = word

\* `word in text`
Contains(text, word) == \E i \in 1..Len(text) : OccursAt(word, text, i)

\* sep.join(parts)
RECURSIVE Join(_, _)
Join(sep, parts) ==
    IF parts = <<>> THEN <<>>
    ELSE IF Len(parts) = 1 THEN parts[1]
    ELSE parts[1] \o sep \o Join(sep, Tail(parts))

(***************************************************************************)
(* XMindParser._detect_subtype (and detect_subtype of case_generation)     *)
(***************************************************************************)
positive_keywords ==
    { <<"tong", "guo">>, <<"cheng", "gong">>, <<"zheng", "que">>,
      <<"yi1", "zhi">>, <<"zheng", "chang">> }

negative_keywords ==
    { <<"bu", "tong", "guo">>, <<"shi1", "bai">>, <<"cuo", "wu">>,
      <<"bu", "yi1", "zhi">>, <<"yi4", "chang">>, <<"ti", "shi4">> }

\* the last match of either keyword set decides
_detect_subtype_Rightmost(text) ==
    LET EndsOf(words) == { i + Len(word) - 1 : <<word, i>> \in
                             { wi \in words \X (1..Len(text)) : OccursAt(wi[1], text, wi[2]) } }
        Last(words) == IF EndsOf(words) = {} THEN 0
                       ELSE CHOOSE m \in EndsOf(words) : \A e \in EndsOf(words) : e <= m
    IN  IF Last(negative_keywords) = 0 /\ Last(positive_keywords) = 0 THEN None
        ELSE IF Last(negative_keywords) >= Last(positive_keywords) THEN "negative"
        ELSE "positive"

_detect_subtype(text) ==
    LET has_positive == \E word \in positive_keywords : Contains(text, word)
        has_negative == \E word \in negative_keywords : Contains(text, word)
    IN  IF has_positive /\ has_negative THEN None
        ELSE IF has_negative THEN "negative"
        ELSE IF has_positive THEN "positive"
        ELSE None

(***************************************************************************)
(* The topic tree of content.xml.  tree.parent[i] is the index of the      *)
(* parent topic of topic i (0 for the root topic, which is topic 1;        *)
(* parents precede their children, siblings are in index order);           *)
(* tree.topic[i] is the topic element:                                     *)
(*   title  the text of its title element (<<>> when absent or empty)      *)
(*   refs   the marker-id of each marker-ref element of the topic itself,  *)
(*          which precede the topic's children in the document, as in      *)
(*          the files the encoders of this repository write                *)
(*   attr   the ids of the topic's `markers` attribute, split at commas    *)
(***************************************************************************)
Topic(title, refs, attr) == [title |-> title, refs |-> refs, attr |-> attr]

Indices(n) == [k \in 1..n |-> k]

\* _get_title
_get_title(tree, i) == Strip(tree.topic[i].title)

\* _get_children
_get_children(tree, i) ==
    FilterSeq(Indices(Len(tree.parent)), {j \in 1..Len(tree.parent) : tree.parent[j] = i})

\* [child for child in self._get_children(node) if self._get_title(child)]
TitledChildren(tree, i) ==
    FilterSeq(_get_children(tree, i),
              {j \in 1..Len(tree.parent) : _get_title(tree, j) # <<>>})

\* the marker-ref elements topic.iter() yields: those of the topic, then
\* those of every descendant topic, in document order
RECURSIVE IterMarkerRefs(_, _)
RECURSIVE IterMarkerRefsOf(_, _)
IterMarkerRefsOf(tree, kids) ==
    IF kids = <<>> THEN <<>>
    ELSE IterMarkerRefs(tree, Head(kids)) \o IterMarkerRefsOf(tree, Tail(kids))

IterMarkerRefs(tree, i) ==
    tree.topic[i].refs \o IterMarkerRefsOf(tree, _get_children(tree, i))

\* re.match(r"priority-(\d)", marker_id): <<digit>> or <<>> for no match
MarkerDigit(marker_id) ==
    CASE marker_id = "priority-1" -> <<1>>
      [] marker_id = "priority-2" -> <<2>>
      [] marker_id = "priority-3" -> <<3>>
      [] marker_id = "priority-4" -> <<4>>
      [] OTHER -> <<>>

\* the first marker of the list that matches
RECURSIVE FirstMarkerDigit(_)
FirstMarkerDigit(markers) ==
    IF markers = <<>> THEN <<>>
    ELSE IF MarkerDigit(Head(markers)) # <<>> THEN MarkerDigit(Head(markers))
    ELSE FirstMarkerDigit(Tail(markers))

\* _get_marker_priority: Optional[int] as <<>> or <<n>>
_get_marker_priority(tree, i) ==
    IF FirstMarkerDigit(IterMarkerRefs(tree, i)) # <<>>
    THEN FirstMarkerDigit(IterMarkerRefs(tree, i))
    ELSE FirstMarkerDigit(tree.topic[i].attr)

\* _has_wrong_marker
_has_wrong_marker(tree, i) ==
    IF "symbol-wrong" \in Range(IterMarkerRefs(tree, i)) THEN TRUE
    ELSE IF tree.topic[i].attr # <<>> THEN "symbol-wrong" \in Range(tree.topic[i].attr)
    ELSE FALSE

\* int(match.group(1)) for the digits [123]
DigitValue(symbol) == CASE symbol = "1" -> 1 [] symbol = "2" -> 2 [] OTHER -> 3

\* re.match of ^\s*[open]?([123])[close]\s* on title, and re.sub of it:
\* open, close are the symbols of the two character classes ("FW(" and
\* "FW)" are the full-width parentheses, "DUN" the ideographic comma).
LeadingNumeral(title, open, close) ==
    LET a == LStrip(title)
        b == IF a # <<>> /\ Head(a) \in open THEN Tail(a) ELSE a
    IN  IF Len(b) >= 2 /\ b[1] \in {"1", "2", "3"} /\ b[2] \in close
        THEN [match |-> TRUE, priority |-> DigitValue(b[1]),
              cleaned |-> Strip(SubSeq(b, 3, Len(b)))]
        ELSE [match |-> FALSE, priority |-> NoPriority, cleaned |-> Strip(title)]

\* _parse_priority: (priority, cleaned title), priority NoPriority for None
_parse_priority(tree, i, title) ==
    LET marker_priority == _get_marker_priority(tree, i)
        pattern == LeadingNumeral(title, {"(", "FW("}, {")", "FW)", ".", "DUN"})
        pattern_simple == LeadingNumeral(title, {}, {".", "DUN"})
    IN  IF marker_priority \in {<<1>>, <<2>>, <<3>>}
        THEN [priority |-> marker_priority[1], title |-> Strip(title)]
        ELSE IF pattern.match
        THEN [priority |-> pattern.priority, title |-> pattern.cleaned]
        ELSE IF pattern_simple.match
        THEN [priority |-> pattern_simple.priority, title |-> pattern_simple.cleaned]
        ELSE [priority |-> NoPriority, title |-> Strip(title)]

\* _max_depth: levels of titled topics below topic i
RECURSIVE _max_depth(_, _)
RECURSIVE MaxDepthOf(_, _)
MaxDepthOf(tree, kids) ==
    IF kids = <<>> THEN 0
    ELSE Max(_max_depth(tree, Head(kids)), MaxDepthOf(tree, Tail(kids)))

_max_depth(tree, i) ==
    IF TitledChildren(tree, i) = <<>> THEN 0
    ELSE 1 + MaxDepthOf(tree, TitledChildren(tree, i))

\* _build_context
_build_context(path_titles) ==
    Strip(Join(<<" ", "/", " ">>,
               FilterSeq(path_titles, Range(path_titles) \ {<<>>, <<"basic_info">>})))

\* _build_point_text
_build_point_text(context, title) ==
    IF context # <<>> THEN context \o <<" ", "-", " ">> \o title ELSE title

\* _merge_titles
_merge_titles(base, extra) ==
    IF base = <<>> THEN extra
    ELSE IF extra = <<>> THEN base
    ELSE base \o <<" ", "-", " ">> \o extra

\* `a or b` on priorities
OrPriority(a, b) == IF a # NoPriority THEN a ELSE b

\* the TestPoint that _append_point builds (point_id is set by parse)
_append_point(point_type, priority, subtype, context, title, manual_case, preconditions, steps, expected_results) ==
    [point_type |-> point_type, subtype |-> subtype, priority |-> priority,
     text |-> _build_point_text(context, title), context |-> context,
     preconditions |-> preconditions, steps |-> steps,
     expected_results |-> expected_results, manual_case |-> manual_case]

PlainPoint(point_type, priority, context, title) ==
    _append_point(point_type, priority, _detect_subtype(title), context, title,
                  FALSE, <<>>, <<>>, <<>>)

\* ChainOf that follows the first titled topic at each level, however many
\* there are
ChainOf_FirstTopic(tree, child) ==
    LET depth2_nodes == TitledChildren(tree, child)
    IN  IF depth2_nodes = <<>> THEN <<>>
        ELSE LET depth3_nodes == TitledChildren(tree, depth2_nodes[1])
             IN  IF depth3_nodes = <<>> THEN <<>>
                 ELSE <<child, depth2_nodes[1], depth3_nodes[1]>>

\* lines 263-287: the chain (child, its only titled child, that one's
\* only titled child) headed by `child`, or <<>> when there is none
ChainOf(tree, child) ==
    LET depth2_nodes == TitledChildren(tree, child)
    IN  IF Len(depth2_nodes) # 1 THEN <<>>
        ELSE LET depth3_nodes == TitledChildren(tree, depth2_nodes[1])
             IN  IF Len(depth3_nodes) # 1 THEN <<>>
                 ELSE <<child, depth2_nodes[1], depth3_nodes[1]>>

\* ChainPoint that reads the subtype from the text of the last topic alone
ChainPoint_TextOnly(tree, chain, point_type, priority, context, cleaned_title) ==
    LET head == _parse_priority(tree, chain[1], _get_title(tree, chain[1]))
        depth3_title == _get_title(tree, chain[3])
    IN  _append_point(point_type, OrPriority(head.priority, priority),
                      _detect_subtype(depth3_title),
                      context, cleaned_title, TRUE,
                      <<head.title>>, <<_get_title(tree, chain[2])>>, <<depth3_title>>)

\* lines 289-306 and 370-386: the manual_case point of one chain
ChainPoint(tree, chain, point_type, priority, context, cleaned_title) ==
    LET head == _parse_priority(tree, chain[1], _get_title(tree, chain[1]))
        depth3_title == _get_title(tree, chain[3])
    IN  _append_point(point_type, OrPriority(head.priority, priority),
                      IF _has_wrong_marker(tree, chain[3]) THEN "negative"
                      ELSE _detect_subtype(depth3_title),
                      context, cleaned_title, TRUE,
                      <<head.title>>, <<_get_title(tree, chain[2])>>, <<depth3_title>>)

\* _parse_test_point: the points it appends and what it adds to
\* _total_count
_parse_test_point(tree, node, point_type, context) ==
    LET node_title == _get_title(tree, node)
        parsed == _parse_priority(tree, node, node_title)
        priority == parsed.priority
        cleaned_title == parsed.title
        children == TitledChildren(tree, node)
        depth == _max_depth(tree, node)
        single == [points |-> <<PlainPoint(point_type, priority, context, cleaned_title)>>,
                   total |-> 1]
        chains == [k \in DOMAIN children |-> ChainOf(tree, children[k])]
    IN  IF node_title = <<>> THEN [points |-> <<>>, total |-> 0]
        ELSE IF depth > 3 THEN [points |-> <<>>, total |-> 0]
        ELSE IF depth = 0 \/ children = <<>> THEN single
        ELSE IF depth = 1
        THEN [points |->
                [k \in DOMAIN children |->
                    LET child == _parse_priority(tree, children[k], _get_title(tree, children[k]))
                    IN  PlainPoint(point_type, OrPriority(child.priority, priority), context,
                                   _merge_titles(cleaned_title, child.title))],
              total |-> Len(children)]
        ELSE IF Len(children) > 1 /\ \A k \in DOMAIN chains : chains[k] # <<>>
        THEN [points |->
                [k \in DOMAIN chains |->
                    ChainPoint(tree, chains[k], point_type, priority, context, cleaned_title)],
              total |-> Len(chains)]
        ELSE IF Len(children) # 1 THEN single
        ELSE LET depth1_node == children[1]
                 depth1 == _parse_priority(tree, depth1_node, _get_title(tree, depth1_node))
                 base_title == _merge_titles(cleaned_title, depth1.title)
                 depth2_nodes == TitledChildren(tree, depth1_node)
             IN  IF depth = 2
                 THEN IF depth2_nodes = <<>> THEN single
                      ELSE [points |->
                              [k \in DOMAIN depth2_nodes |->
                                  PlainPoint(point_type, OrPriority(depth1.priority, priority),
                                             context,
                                             _merge_titles(base_title,
                                                           _get_title(tree, depth2_nodes[k])))],
                            total |-> 1]
                 ELSE IF ChainOf(tree, depth1_node) = <<>> THEN single
                 ELSE [points |-> <<ChainPoint(tree, ChainOf(tree, depth1_node), point_type,
                                               priority, context, cleaned_title)>>,
                       total |-> 1]

\* _SECTION_TYPES
_SECTION_TYPES ==
    [title \in {<<"business_process">>, <<"business_rule">>, <<"page_control">>} |->
        CASE title = <<"business_process">> -> "process"
          [] title = <<"business_rule">> -> "rule"
          [] OTHER -> "page_control"]

NoPoints == [points |-> <<>>, total |-> 0]

Both(a, b) == [points |-> a.points \o b.points, total |-> a.total + b.total]

\* _traverse_topics: the points appended below topic i and the growth of
\* _total_count; path_titles are the titles above topic i
RECURSIVE _traverse_topics(_, _, _)
RECURSIVE TraverseEach(_, _, _)
RECURSIVE ParseEach(_, _, _, _)
TraverseEach(tree, kids, current_path) ==
    IF kids = <<>> THEN NoPoints
    ELSE Both(_traverse_topics(tree, Head(kids), current_path),
              TraverseEach(tree, Tail(kids), current_path))

ParseEach(tree, kids, point_type, context) ==
    IF kids = <<>> THEN NoPoints
    ELSE Both(_parse_test_point(tree, Head(kids), point_type, context),
              ParseEach(tree, Tail(kids), point_type, context))

_traverse_topics(tree, i, path_titles) ==
    LET title == _get_title(tree, i)
        current_path == IF title # <<>> THEN Append(path_titles, title) ELSE path_titles
    IN  IF title \in DOMAIN _SECTION_TYPES
        THEN ParseEach(tree, _get_children(tree, i), _SECTION_TYPES[title],
                       _build_context(current_path))
        ELSE TraverseEach(tree, _get_children(tree, i), current_path)

\* the titles above topic i, from the root topic down
RECURSIVE PathAbove(_, _)
PathAbove(tree, i) ==
    IF tree.parent[i] = 0 THEN <<>>
    ELSE LET up == tree.parent[i]
         IN  IF _get_title(tree, up) # <<>>
             THEN Append(PathAbove(tree, up), _get_title(tree, up))
             ELSE PathAbove(tree, up)

\* topic i lies below a section topic
RECURSIVE BelowSection(_, _)
BelowSection(tree, i) ==
    /\ tree.parent[i] # 0
    /\ \/ _get_title(tree, tree.parent[i]) \in DOMAIN _SECTION_TYPES
       \/ BelowSection(tree, tree.parent[i])

\* the set `titles` that _traverse_topics collects
TraversedTitles(tree) ==
    { _get_title(tree, i) : i \in {j \in DOMAIN tree.parent : ~BelowSection(tree, j)} } \ {<<>>}

\* XMindParser.parse on a container: content says whether the archive has
\* a readable content.xml, well_formed whether that text is well-formed
\* XML, sheet and root_topic whether it has the sheet element and its
\* topic element, tree is the topic tree.
\* Returns the decoded document or the exception raised.
parse(container) ==
    IF ~container.content
    THEN [ok |-> FALSE, error |-> "ValueError: no content.xml"]
    ELSE IF ~container.well_formed
    THEN [ok |-> FALSE, error |-> "ParseError"]
    ELSE IF ~container.sheet
    THEN [ok |-> FALSE, error |-> "ValueError: no sheet"]
    ELSE IF ~container.root_topic
    THEN [ok |-> FALSE, error |-> "ValueError: no root topic"]
    ELSE LET found == _traverse_topics(container.tree, 1, <<>>)
         IN  [ok |-> TRUE,
              document_type |-> IF <<"function">> \in TraversedTitles(container.tree)
                                THEN "non_modeling" ELSE "modeling",
              test_points |-> found.points,
              total |-> found.total]

(***************************************************************************)
(* XMindGenerator: the topic tree of the content.xml it writes for a       *)
(* modeling document.  Texts are sequences of symbols as above; "ctrl" is  *)
(* a control character that XML does not allow (U+0001).                   *)
(***************************************************************************)
\* the tree with a new topic titled title_text as last child of topic
\* `parent`; the new topic is the last topic of the result
_create_topic_element(tree, parent, title_text) ==
    [parent |-> Append(tree.parent, parent),
     topic |-> Append(tree.topic, Topic(title_text, <<>>, <<>>))]

\* for title in titles: self._create_topic_element(parent, title)
RECURSIVE CreateTopicElements(_, _, _)
CreateTopicElements(tree, parent, titles) ==
    IF titles = <<>> THEN tree
    ELSE CreateTopicElements(_create_topic_element(tree, parent, Head(titles)),
                             parent, Tail(titles))

\* the fixed nodes
FixedNodes ==
    << <<"business_process">>, <<"business_rule">>, <<"page_control">>, <<"data_check">> >>

\* _build_root_title, modeling branch
_build_root_title(parsed_doc) ==
    LET case_name == parsed_doc.requirement_info.case_name
        version == parsed_doc.version
    IN  IF case_name # <<>> /\ version # <<>> THEN case_name \o <<"-">> \o version
        ELSE IF case_name # <<>> THEN case_name
        ELSE IF version # <<>> THEN <<"test_outline", "-">> \o version
        ELSE <<"test_outline">>

\* _add_basic_info, modeling branch, for a requirement_info without
\* customer, product, channel and partner
_add_basic_info(tree, parent_topic) ==
    CreateTopicElements(tree, parent_topic,
        << <<"customer", "FW:">>, <<"product", "FW:">>, <<"channel", "FW:">>,
           <<"partner", "FW:">>, <<"designer", "FW:">> >>)

\* _add_activity_fixed_nodes
_add_activity_fixed_nodes(tree, parent_topic) ==
    CreateTopicElements(tree, parent_topic, FixedNodes)

\* _format_input_element
_format_input_element(elem) ==
    LET required_text == IF elem.required = <<"yes">> THEN <<"bi4", "shu1">>
                         ELSE <<"fei", "bi4", "shu1">>
        is_dropdown == \/ Contains(elem.field_format, <<"xia", "la">>)
                       \/ Contains(elem.input_limit, <<"xia", "la">>)
    IN  IF is_dropdown /\ elem.input_limit # <<>>
        THEN elem.field_name \o <<"-">> \o required_text
               \o <<"FW;", "xia", "la", "xuan", "xiang", "bao", "kuo", "FW:">>
               \o elem.input_limit
        ELSE IF elem.description # <<>>
        THEN elem.field_name \o <<"-">> \o required_text \o <<"-">> \o elem.description
        ELSE elem.field_name \o <<"-">> \o required_text

\* _format_output_element
_format_output_element(elem) ==
    Join(<<"-">>,
         <<elem.field_name>>
           \o (IF elem.field_type # <<>> THEN <<elem.field_type>> ELSE <<>>)
           \o (IF elem.description # <<>> THEN <<elem.description>> ELSE <<>>))

\* _add_step
_add_step(tree, parent_topic, step) ==
    LET fixed == CreateTopicElements(tree, parent_topic, FixedNodes)
        page_control_topic == Len(tree.parent) + 3
        inputs == [k \in DOMAIN step.input_elements |->
                     <<"shu1", "ru", "-">> \o _format_input_element(step.input_elements[k])]
        outputs == [k \in DOMAIN step.output_elements |->
                      <<"shu1", "chu", "-">> \o _format_output_element(step.output_elements[k])]
    IN  CreateTopicElements(CreateTopicElements(fixed, page_control_topic, inputs),
                            page_control_topic, outputs)

\* _add_task: the loop over task.steps
RECURSIVE _add_task(_, _, _)
_add_task(tree, parent_topic, steps) ==
    IF steps = <<>> THEN tree
    ELSE IF Head(steps).name = <<>> THEN _add_task(tree, parent_topic, Tail(steps))
    ELSE LET with_step == _create_topic_element(tree, parent_topic, Head(steps).name)
         IN  _add_task(_add_step(with_step, Len(with_step.parent), Head(steps)),
                       parent_topic, Tail(steps))

\* _add_component: the loop over component.tasks
RECURSIVE _add_component(_, _, _)
_add_component(tree, parent_topic, tasks_) ==
    IF tasks_ = <<>> THEN tree
    ELSE IF Head(tasks_).name = <<>> THEN _add_component(tree, parent_topic, Tail(tasks_))
    ELSE LET with_task == _create_topic_element(tree, parent_topic, Head(tasks_).name)
         IN  _add_component(_add_task(with_task, Len(with_task.parent), Head(tasks_).steps),
                            parent_topic, Tail(tasks_))

\* lines 76-81: the activity topics below the root topic
RECURSIVE AddActivities(_, _)
AddActivities(tree, activities) ==
    IF activities = <<>> THEN tree
    ELSE IF Head(activities).name = <<>> THEN AddActivities(tree, Tail(activities))
    ELSE LET with_activity == _create_topic_element(tree, 1, Head(activities).name)
         IN  AddActivities(_add_activity_fixed_nodes(with_activity, Len(with_activity.parent)),
                           Tail(activities))

\* lines 84-90: the component topics below the root topic
RECURSIVE AddComponents(_, _)
AddComponents(tree, components) ==
    IF components = <<>> THEN tree
    ELSE IF Head(components).name = <<>> THEN AddComponents(tree, Tail(components))
    ELSE LET with_component == _create_topic_element(tree, 1, Head(components).name)
         IN  AddComponents(_add_component(with_component, Len(with_component.parent),
                                          Head(components).tasks),
                           Tail(components))

RECURSIVE AddActivityComponents(_, _)
AddActivityComponents(tree, activities) ==
    IF activities = <<>> THEN tree
    ELSE AddActivityComponents(AddComponents(tree, Head(activities).components),
                               Tail(activities))

\* _create_content_xml, modeling branch: the topic tree below the sheet
_create_content_xml(parsed_doc) ==
    LET root_title == _build_root_title(parsed_doc)
        root == [parent |-> <<0>>, topic |-> <<Topic(root_title, <<>>, <<>>)>>]
        basic_info_topic == _create_topic_element(root, 1, <<"basic_info">>)
        basic == _add_basic_info(basic_info_topic, 2)
    IN  AddActivityComponents(AddActivities(basic, parsed_doc.activities),
                              parsed_doc.activities)

\* generate: the container with content.xml.  ET.tostring writes the
\* characters of a title as they are, apart from & < >, so the text is
\* well-formed XML only without a control character.
generate(parsed_doc) ==
    LET tree == _create_content_xml(parsed_doc)
    IN  [content |-> TRUE,
         well_formed |-> \A i \in DOMAIN tree.topic : "ctrl" \notin Range(tree.topic[i].title),
         sheet |-> TRUE, root_topic |-> TRUE, tree |-> tree]

(***************************************************************************)
(* CaseXMindGenerator for a modeling document: the topic tree of the case  *)
(* file.  The generator's state while it builds is the record              *)
(* [tree, attached]: the topics created so far and _attached_case_ids.     *)
(* A point or case field that is None is the empty sequence.               *)
(***************************************************************************)
\* str.split(sep)
RECURSIVE Split(_, _)
Split(text, sep) ==
    IF \E i \in 1..Len(text) : OccursAt(sep, text, i)
    THEN LET first == CHOOSE i \in 1..Len(text) :
                        /\ OccursAt(sep, text, i)
                        /\ \A j \in 1..(i - 1) : ~OccursAt(sep, text, j)
         IN  <<SubSeq(text, 1, first - 1)>>
               \o Split(SubSeq(text, first + Len(sep), Len(text)), sep)
    ELSE <<text>>

\* _split_context
_split_context(context) ==
    IF context = <<>> THEN <<>>
    ELSE LET segs == Split(context, <<" ", "/", " ">>)
             stripped == [k \in DOMAIN segs |-> Strip(segs[k])]
         IN  FilterSeq(stripped, Range(stripped) \ {<<>>})

\* _strip_root
_strip_root(parsed, segments) ==
    IF segments = <<>> THEN segments
    ELSE LET root == segments[1]
             requirement == parsed.requirement_name
         IN  IF /\ requirement # <<>> /\ Contains(root, requirement)
                /\ (Contains(root, <<"project_number">>) \/ Contains(root, <<"spec_number">>))
             THEN Tail(segments)
             ELSE IF root = requirement THEN Tail(segments)
             ELSE segments

\* _contains_sequence
_contains_sequence(path, target) ==
    IF target = <<>> THEN FALSE
    ELSE IF Len(target) > Len(path) THEN FALSE
    ELSE \E i \in 1..(Len(path) - Len(target) + 1) :
            SubSeq(path, i, i + Len(target) - 1) = target

\* _extract_context
_extract_context(text) ==
    IF text = <<>> THEN <<>>
    ELSE IF Contains(text, <<" ", "-", " ">>) THEN Strip(Split(text, <<" ", "-", " ">>)[1])
    ELSE Strip(text)

\* _strip_context_from_title: text.split(" - ", 1)[-1].strip()
_strip_context_from_title(text) ==
    IF text = <<>> THEN <<>>
    ELSE IF Contains(text, <<" ", "-", " ">>)
    THEN Strip(SubSeq(text, Len(Split(text, <<" ", "-", " ">>)[1]) + 4, Len(text)))
    ELSE Strip(text)

\* self._case_map.get(point_id): the last case of the list with the id
_case_map(cases, point_id) ==
    LET at == { k \in DOMAIN cases : cases[k].point_id = point_id /\ point_id # <<>> }
    IN  IF at = {} THEN <<>>
        ELSE <<cases[CHOOSE k \in at : \A j \in at : j <= k]>>

\* _build_points
RECURSIVE _build_points(_, _)
_build_points(points_, cases) ==
    IF cases = <<>> THEN points_
    ELSE LET case == Head(cases)
             existing_ids == { points_[k].point_id : k \in DOMAIN points_ } \ {<<>>}
             context == _extract_context(case.text)
         IN  IF case.point_id = <<>> \/ case.point_id \in existing_ids
             THEN _build_points(points_, Tail(cases))
             ELSE _build_points(
                    Append(points_,
                           [point_id |-> case.point_id, point_type |-> case.point_type,
                            subtype |-> case.subtype, priority |-> case.priority,
                            text |-> case.text, context |-> context]),
                    Tail(cases))

\* components.setdefault(component, {}).setdefault(task, []) and the
\* append of `step` when it is not in the list; None is <<>>
AddStep(components, component, task, step) ==
    LET c0 == IF \E k \in DOMAIN components : components[k].name = component
              THEN components
              ELSE Append(components, [name |-> component, tasks |-> <<>>])
        ci == CHOOSE k \in DOMAIN c0 : c0[k].name = component
        t0 == IF \E k \in DOMAIN c0[ci].tasks : c0[ci].tasks[k].name = task
              THEN c0[ci].tasks
              ELSE Append(c0[ci].tasks, [name |-> task, steps |-> <<>>])
        ti == CHOOSE k \in DOMAIN t0 : t0[k].name = task
        s1 == IF step \in Range(t0[ti].steps) THEN t0[ti].steps
              ELSE Append(t0[ti].steps, step)
    IN  [c0 EXCEPT ![ci] = [name |-> component,
                            tasks |-> [t0 EXCEPT ![ti] = [name |-> task, steps |-> s1]]]]

\* _collect_modeling_structure
RECURSIVE CollectEach(_, _, _)
CollectEach(parsed, points_, found) ==
    IF points_ = <<>> THEN found
    ELSE LET stripped == _strip_root(parsed, _split_context(Head(points_).context))
             segments == IF stripped # <<>>
                            /\ stripped[Len(stripped)] \in {<<"business_process">>, <<"business_rule">>}
                         THEN SubSeq(stripped, 1, Len(stripped) - 1)
                         ELSE stripped
             now == IF segments = <<>> THEN found
                    ELSE IF Len(segments) = 1
                    THEN IF segments[1] \in Range(found.activities) THEN found
                         ELSE [found EXCEPT !.activities = Append(@, segments[1])]
                    ELSE IF Len(segments) = 2
                    THEN [found EXCEPT !.components = AddStep(@, segments[1], segments[2], <<>>)]
                    ELSE [found EXCEPT !.components =
                            AddStep(@, segments[1], segments[2], segments[3])]
         IN  CollectEach(parsed, Tail(points_), now)

_collect_modeling_structure(parsed, points_) ==
    CollectEach(parsed, points_, [activities |-> <<>>, components |-> <<>>])

\* _create_topic: the new topic is the last topic of the result
_create_topic(tree, parent, title_text, priority) ==
    [parent |-> Append(tree.parent, parent),
     topic |-> Append(tree.topic,
                      Topic(title_text,
                            CASE priority = 1 -> <<"priority-1">>
                              [] priority = 2 -> <<"priority-2">>
                              [] priority = 3 -> <<"priority-3">>
                              [] OTHER -> <<>>,
                            <<>>))]

\* _create_child_topic
_create_child_topic(tree, parent, title_text, priority) ==
    _create_topic(tree, parent, title_text, priority)

\* _add_fixed_leaf_nodes
_add_fixed_leaf_nodes(tree, parent) == CreateTopicElements(tree, parent, FixedNodes)

\* _build_basic_info, modeling branch, for a document without customer,
\* product, channel, partner and designer
_build_basic_info(tree) ==
    LET basic == _create_topic(tree, 1, <<"basic_info">>, NoPriority)
    IN  CreateTopicElements(basic, Len(basic.parent),
            << <<"customer", "FW:", "/">>, <<"product", "FW:", "/">>,
               <<"channel", "FW:", "/">>, <<"partner", "FW:", "/">>,
               <<"designer", "FW:", "/">> >>)

\* _find_leaf_node: the topic found, or 0 for None
_find_leaf_node(tree, parent, point_type) ==
    LET target == IF point_type = "process" THEN <<"business_process">>
                  ELSE <<"business_rule">>
        hits == { i \in DOMAIN tree.parent :
                    tree.parent[i] = parent /\ tree.topic[i].title = target }
    IN  IF hits = {} THEN 0 ELSE CHOOSE i \in hits : \A j \in hits : i <= j

\* the decimal digits of a list index
IndexText(idx) == CASE idx = 1 -> <<"1">> [] idx = 2 -> <<"2">> [] OTHER -> <<"3">>

\* _join_with_index
_join_with_index(items) ==
    LET cleaned == FilterSeq(items, Range(items) \ {<<>>})
    IN  IF Len(cleaned) = 0 THEN <<>>
        ELSE IF Len(cleaned) = 1 THEN cleaned[1]
        ELSE Join(<<"LF">>, [idx \in DOMAIN cleaned |-> IndexText(idx) \o <<"DUN">> \o cleaned[idx]])

\* _add_case_node
_add_case_node(st, parent, point, case) ==
    IF case.case_id \in st.attached THEN st
    ELSE LET case_title == _strip_context_from_title(
                              IF case.text # <<>> THEN case.text
                              ELSE IF point.text # <<>> THEN point.text ELSE point.point_id)
             case_topic == _create_child_topic(st.tree, parent, case_title, point.priority)
             pre_content == _create_child_topic(case_topic, Len(case_topic.parent),
                                                _join_with_index(case.preconditions), NoPriority)
             steps_content == _create_child_topic(pre_content, Len(pre_content.parent),
                                                  _join_with_index(case.steps), NoPriority)
             joined == _join_with_index(case.expected_results)
             expected_text == IF point.subtype = "negative" /\ joined # <<>>
                              THEN <<"cross">> \o joined ELSE joined
         IN  [tree |-> _create_child_topic(steps_content, Len(steps_content.parent),
                                           expected_text, NoPriority),
              attached |-> st.attached \cup {case.case_id}]

\* _match_point, document_type "modeling"; task and step are <<>> for None
_match_point(parsed, point, top, task, step) ==
    LET segments == _strip_root(parsed, _split_context(point.context))
        sectioned == segments # <<>>
                       /\ segments[Len(segments)] \in {<<"business_process">>, <<"business_rule">>}
        leaf == IF sectioned THEN segments[Len(segments)] ELSE <<>>
        path == IF sectioned THEN SubSeq(segments, 1, Len(segments) - 1) ELSE segments
    IN  IF segments = <<>> THEN FALSE
        ELSE IF point.point_type = "process" /\ leaf # <<"business_process">> THEN FALSE
        ELSE IF point.point_type = "rule" /\ leaf # <<"business_rule">> THEN FALSE
        ELSE IF step # <<>> THEN _contains_sequence(path, <<top, task, step>>)
        ELSE IF task # <<>> THEN _contains_sequence(path, <<top, task>>)
        ELSE Len(path) = 1 /\ path[1] = top

\* _append_points: the loop over self._points
RECURSIVE AppendEach(_, _, _, _, _, _, _, _)
AppendEach(parsed, cases, st, points_, parent, top, task, step) ==
    IF points_ = <<>> THEN st
    ELSE LET point == Head(points_)
             case == _case_map(cases, point.point_id)
             branch == _find_leaf_node(st.tree, parent, point.point_type)
             now == IF case = <<>> THEN st
                    ELSE IF point.context = <<>> THEN st
                    ELSE IF ~_match_point(parsed, point, top, task, step) THEN st
                    ELSE IF branch = 0 THEN st
                    ELSE _add_case_node(st, branch, point, case[1])
         IN  AppendEach(parsed, cases, now, Tail(points_), parent, top, task, step)

_append_points(parsed, cases, st, parent, top, task, step) ==
    AppendEach(parsed, cases, st, _build_points(parsed.test_points, cases),
               parent, top, task, step)

\* _build_modeling: the loop over activity_names
RECURSIVE BuildActivities(_, _, _, _)
BuildActivities(parsed, cases, st, activity_names) ==
    IF activity_names = <<>> THEN st
    ELSE LET activity == Head(activity_names)
             activity_topic == _create_topic(st.tree, 1, activity, NoPriority)
             fixed == _add_fixed_leaf_nodes(activity_topic, Len(activity_topic.parent))
         IN  BuildActivities(parsed, cases,
                             _append_points(parsed, cases, [st EXCEPT !.tree = fixed],
                                            Len(activity_topic.parent), activity, <<>>, <<>>),
                             Tail(activity_names))

\* _build_modeling: the loop over concrete_steps
RECURSIVE BuildSteps(_, _, _, _, _, _, _)
BuildSteps(parsed, cases, st, task_topic, component, task, concrete_steps) ==
    IF concrete_steps = <<>> THEN st
    ELSE LET step == Head(concrete_steps)
             step_topic == _create_topic(st.tree, task_topic, step, NoPriority)
             fixed == _add_fixed_leaf_nodes(step_topic, Len(step_topic.parent))
         IN  BuildSteps(parsed, cases,
                        _append_points(parsed, cases, [st EXCEPT !.tree = fixed],
                                       Len(step_topic.parent), component, task, step),
                        task_topic, component, task, Tail(concrete_steps))

\* _build_modeling: the loop over task_map.items()
RECURSIVE BuildTasks(_, _, _, _, _, _)
BuildTasks(parsed, cases, st, component_topic, component, task_map) ==
    IF task_map = <<>> THEN st
    ELSE LET task == Head(task_map).name
             step_list == Head(task_map).steps
             with_task == _create_topic(st.tree, component_topic, task, NoPriority)
             task_topic == Len(with_task.parent)
             own == IF <<>> \in Range(step_list)
                    THEN _append_points(parsed, cases,
                                        [st EXCEPT !.tree = _add_fixed_leaf_nodes(with_task, task_topic)],
                                        task_topic, component, task, <<>>)
                    ELSE [st EXCEPT !.tree = with_task]
             concrete_steps == FilterSeq(step_list, Range(step_list) \ {<<>>})
         IN  BuildTasks(parsed, cases,
                        BuildSteps(parsed, cases, own, task_topic, component, task, concrete_steps),
                        component_topic, component, Tail(task_map))

\* _build_modeling: the loop over component_map.items()
RECURSIVE BuildComponents(_, _, _, _)
BuildComponents(parsed, cases, st, component_map) ==
    IF component_map = <<>> THEN st
    ELSE LET component == Head(component_map).name
             component_topic == _create_topic(st.tree, 1, component, NoPriority)
         IN  BuildComponents(parsed, cases,
                             BuildTasks(parsed, cases, [st EXCEPT !.tree = component_topic],
                                        Len(component_topic.parent), component,
                                        Head(component_map).tasks),
                             Tail(component_map))

_build_modeling(parsed, cases, st) ==
    LET found == _collect_modeling_structure(parsed, _build_points(parsed.test_points, cases))
        basic == [st EXCEPT !.tree = _build_basic_info(st.tree)]
    IN  BuildComponents(parsed, cases,
                        BuildActivities(parsed, cases, basic, found.activities),
                        found.components)

\* CaseXMindGenerator._build_root_title
Case_build_root_title(parsed) ==
    (IF parsed.document_number # <<>> THEN parsed.document_number ELSE <<"spec_number">>)
      \o <<"-">>
      \o (IF parsed.requirement_name # <<>> THEN parsed.requirement_name ELSE <<"test_case">>)

\* CaseXMindGenerator(parsed, cases)._create_content_xml for a modeling
\* document: the topic tree written and _attached_case_ids at the end
Case_create_content_xml(parsed, cases) ==
    _build_modeling(parsed, cases,
        [tree |-> [parent |-> <<0>>,
                   topic |-> <<Topic(Case_build_root_title(parsed), <<>>, <<>>)>>],
         attached |-> {}])

\* The task engine at rest while one function call is observed.
Idle ==
    /\ doc = 1
    /\ points = Docs[1]
    /\ previews = <<>>
    /\ tasks = <<>>
    /\ records = [s \in SessionIds |-> NoRow]
    /\ enableRuleBatch = FALSE
    /\ parse_tasks = <<>>

Call(op, arg) == [op |-> op, arg |-> arg, ret |-> <<>>, done |-> FALSE]

\* the call returns `ret`
Return(ret) ==
    /\ call' = [call EXCEPT !.ret = ret, !.done = TRUE]
    /\ UNCHANGED <<doc, points, previews, tasks, records, enableRuleBatch, parse_tasks>>

(***************************************************************************)
(* select_preview_points on every list of at most MaxCandidates            *)
(* candidates and every count of PreviewCountInputs                        *)
(***************************************************************************)
MaxCandidates == 6

CandidateKinds ==
    { TP("rule", "s1", None, NoPriority), TP("process", "s1", "positive", 1),
      TP("rule", "s1", "negative", 1), TP("page_control", "s1", "positive", 2) }

CandidateLists == UNION { [1..n -> CandidateKinds] : n \in 0..MaxCandidates }

PreviewCountInputs == {<<>>} \cup { <<n>> : n \in -1..7 }

InitSelect ==
    /\ Idle
    /\ call \in { Call("select_preview_points", [points |-> c, count |-> n]) :
                    c \in CandidateLists, n \in PreviewCountInputs }

SelectPreviewPoints ==
    /\ call.op = "select_preview_points" /\ ~call.done
    /\ Return(select_preview_points(call.arg.points,
                                    [i \in 1..Len(call.arg.points) |-> i],
                                    call.arg.count))

NextSelect == SelectPreviewPoints

SpecSelect == InitSelect /\ [][NextSelect]_vars

(***************************************************************************)
(* _parse_test_point on a topic N with the chain N - A - B - C of titled   *)
(* topics below it, C with or without markers, and possibly one more       *)
(* topic without a title somewhere in the chain                            *)
(***************************************************************************)
ChainTitles == { <<"x">>, <<"cheng", "gong">>, <<"shi1", "bai">>, <<"1", "DUN", "x">> }

ChainTrees ==
    LET chains ==
          { [parent |-> <<0, 1, 2, 3>>,
             topic |-> <<Topic(n, <<>>, <<>>), Topic(a, <<>>, <<>>), Topic(b, <<>>, <<>>),
                         Topic(c, refs, attr)>>] :
              n \in {<<"x">>, <<"2", ".", "x">>}, a \in ChainTitles, b \in ChainTitles,
              c \in ChainTitles,
              refs \in {<<>>, <<"symbol-wrong">>, <<"priority-2">>},
              attr \in {<<>>, <<"symbol-wrong">>} }
    IN  chains \cup
        { [parent |-> Append(t.parent, up),
           topic |-> Append(t.topic, Topic(blank, <<>>, <<>>))] :
              t \in chains, up \in 1..4, blank \in {<<>>, <<Space>>} }

InitChain ==
    /\ Idle
    /\ call \in { Call("_parse_test_point",
                       [tree |-> t, point_type |-> ty,
                        context |-> _build_context(<<<<"r">>, <<SectionOf(ty)>>>>)]) :
                    t \in ChainTrees, ty \in {"process", "rule", "page_control"} }

ParseTestPoint ==
    /\ call.op = "_parse_test_point" /\ ~call.done
    /\ Return(_parse_test_point(call.arg.tree, 1, call.arg.point_type, call.arg.context))

NextChain == ParseTestPoint

SpecChain == InitChain /\ [][NextChain]_vars

(***************************************************************************)
(* _parse_priority on a topic with or without a priority marker (as a      *)
(* marker-ref or in the markers attribute), with or without a leading      *)
(* numeral in its title, and with up to two child topics that may carry    *)
(* markers of their own                                                    *)
(***************************************************************************)
NumeralTitles ==
    { <<"x">>,
      <<"2", "DUN", "x">>, <<"(", "2", ")", "x">>, <<"FW(", "3", "FW)", " ", "x">>,
      <<"1", ".", "x">>, <<"2", ")", "x">>,
      <<"2", "x">>, <<"4", "DUN", "x">>, <<"circled2", "x">>, <<"x", "2", "DUN">> }

OwnMarkers ==
    { [refs |-> <<>>, attr |-> <<>>],
      [refs |-> <<"priority-1">>, attr |-> <<>>],
      [refs |-> <<"symbol-wrong", "priority-3">>, attr |-> <<>>],
      [refs |-> <<"priority-4">>, attr |-> <<>>],
      [refs |-> <<"symbol-wrong">>, attr |-> <<>>],
      [refs |-> <<>>, attr |-> <<"priority-2">>] }

ChildMarkers == { <<>>, <<"priority-1">>, <<"symbol-wrong">> }

PriorityTrees ==
    { [parent |-> <<0>>, topic |-> <<Topic(t, m.refs, m.attr)>>] :
        t \in NumeralTitles, m \in OwnMarkers }
    \cup
    { [parent |-> <<0, 1, 1>>,
       topic |-> <<Topic(t, m.refs, m.attr), Topic(<<"y">>, c1, <<>>), Topic(<<"z">>, c2, <<>>)>>] :
        t \in NumeralTitles, m \in OwnMarkers, c1 \in ChildMarkers, c2 \in ChildMarkers }

InitPriority ==
    /\ Idle
    /\ call \in { Call("_parse_priority", [tree |-> t]) : t \in PriorityTrees }

ParsePriority ==
    /\ call.op = "_parse_priority" /\ ~call.done
    /\ Return(_parse_priority(call.arg.tree, 1, _get_title(call.arg.tree, 1)))

NextPriority == ParsePriority

SpecPriority == InitPriority /\ [][NextPriority]_vars

(***************************************************************************)
(* parse on a container whose root topic has one section topic with two    *)
(* leaf topics: the titles "bu4 zhou A" (step A) with and without a        *)
(* numeral before them, the numeral as digit + delimiter or as the one     *)
(* character "circled2" (circled digit two)                                *)
(***************************************************************************)
StepA == <<"bu4", "zhou", "A">>
StepB == <<"bu4", "zhou", "B">>

LeafTitles ==
    { StepA, StepB,
      <<"circled2">> \o StepB, <<"2", "DUN">> \o StepB, <<"(", "2", ")">> \o StepB,
      <<"1", ".">> \o StepA, <<"2">> \o StepB, <<"circled2">> \o StepA }

SectionContainers ==
    { [content |-> TRUE, well_formed |-> TRUE, sheet |-> TRUE, root_topic |-> TRUE,
       tree |-> [parent |-> <<0, 1, 2, 2>>,
                 topic |-> <<Topic(<<"r">>, <<>>, <<>>), Topic(section, <<>>, <<>>),
                             Topic(first, <<>>, <<>>), Topic(second, <<>>, <<>>)>>]] :
        section \in DOMAIN _SECTION_TYPES, first \in LeafTitles, second \in LeafTitles }

InitSection ==
    /\ Idle
    /\ call \in { Call("parse", c) : c \in SectionContainers }

Parse ==
    /\ call.op = "parse" /\ ~call.done
    /\ Return(parse(call.arg))

NextSection == Parse

SpecSection == InitSection /\ [][NextSection]_vars

(***************************************************************************)
(* _detect_subtype on texts made of up to MaxPieces pieces, each a keyword *)
(* of either set or the neutral character "x"                              *)
(***************************************************************************)
MaxPieces == 3

Pieces == positive_keywords \cup negative_keywords \cup { <<"x">> }

PieceLists == UNION { [1..n -> Pieces] : n \in 0..MaxPieces }

SubtypeTexts == { Join(<<>>, ps) : ps \in PieceLists }

InitSubtype ==
    /\ Idle
    /\ call \in { Call("_detect_subtype", text) : text \in SubtypeTexts }

DetectSubtype ==
    /\ call.op = "_detect_subtype" /\ ~call.done
    /\ Return(_detect_subtype(call.arg))

NextSubtype == DetectSubtype

SpecSubtype == InitSubtype /\ [][NextSubtype]_vars

(***************************************************************************)
(* parse on containers with and without their parts, and on topic trees    *)
(* of at most MaxTopics topics: topic 1 is the root topic, topic 2 a       *)
(* section topic, every later topic is a child of the topic before it or   *)
(* of the section topic, with or without a title                           *)
(***************************************************************************)
MaxTopics == 7

\* what the archive holds: no content.xml; content.xml that is not XML;
\* XML without sheet; a sheet without topic; all of them
ContainerParts ==
    { [content |-> FALSE, well_formed |-> FALSE, sheet |-> FALSE, root_topic |-> FALSE],
      [content |-> TRUE, well_formed |-> FALSE, sheet |-> FALSE, root_topic |-> FALSE],
      [content |-> TRUE, well_formed |-> TRUE, sheet |-> FALSE, root_topic |-> FALSE],
      [content |-> TRUE, well_formed |-> TRUE, sheet |-> TRUE, root_topic |-> FALSE],
      [content |-> TRUE, well_formed |-> TRUE, sheet |-> TRUE, root_topic |-> TRUE] }

ParentVectors(n) ==
    { [i \in 1..n |-> IF i = 1 THEN 0 ELSE IF i = 2 THEN 1
                      ELSE IF chained[i] THEN i - 1 ELSE 2] :
        chained \in [3..n -> BOOLEAN] }

TopicTitles(n) ==
    { [i \in 1..n |-> IF i = 1 THEN <<"r">> ELSE IF i = 2 THEN <<"business_rule">>
                      ELSE IF titled[i] THEN <<"x">> ELSE <<>>] :
        titled \in [3..n -> BOOLEAN] }

ParseTrees ==
    UNION { { [parent |-> parent, topic |-> [i \in 1..n |-> Topic(title[i], <<>>, <<>>)]] :
                parent \in ParentVectors(n), title \in TopicTitles(n) } :
            n \in 2..MaxTopics }

ParseContainers ==
    { [content |-> parts.content, well_formed |-> parts.well_formed,
       sheet |-> parts.sheet, root_topic |-> parts.root_topic, tree |-> tree] :
        parts \in ContainerParts, tree \in ParseTrees }

InitParse ==
    /\ Idle
    /\ call \in { Call("parse", c) : c \in ParseContainers }

NextParse == Parse

SpecParse == InitParse /\ [][NextParse]_vars

(***************************************************************************)
(* generate, then parse of what it wrote, on modeling documents with one   *)
(* activity of one component of one task of one step, whose names are      *)
(* drawn from NameChoices, with at most MaxElements input and output       *)
(* elements                                                                *)
(***************************************************************************)
MaxElements == 1

NameChoices ==
    { <<"x">>, <<>>, <<"business_rule">>, <<"basic_info">>, <<"x", "ctrl">> }

InputElement(field_name, required, field_format, input_limit, description) ==
    [field_name |-> field_name, required |-> required, field_format |-> field_format,
     input_limit |-> input_limit, description |-> description]

OutputElement(field_name, field_type, description) ==
    [field_name |-> field_name, field_type |-> field_type, description |-> description]

InputElements ==
    { InputElement(<<"f">>, <<"yes">>, <<>>, <<>>, <<"d">>),
      InputElement(<<"f">>, <<"no">>, <<"xia", "la">>, <<"a">>, <<>>),
      InputElement(<<"f">>, <<"no">>, <<>>, <<>>, <<>>),
      InputElement(<<"f">>, <<"yes">>, <<"xia", "la">>, <<>>, <<>>) }

OutputElements ==
    { OutputElement(<<"g">>, <<"t">>, <<"d">>), OutputElement(<<"g">>, <<>>, <<>>),
      OutputElement(<<>>, <<>>, <<"d">>) }

ParsedDocuments ==
    { [version |-> version, requirement_info |-> [case_name |-> <<"r">>],
       activities |->
         << [name |-> <<"a">>,
             components |->
               << [name |-> component,
                   tasks |-> << [name |-> task,
                                 steps |-> << [name |-> step,
                                               input_elements |-> inputs,
                                               output_elements |-> outputs] >>] >>] >>] >>] :
        version \in {<<>>, <<"v">>},
        component \in NameChoices, task \in NameChoices, step \in NameChoices,
        inputs \in UNION { [1..n -> InputElements] : n \in 0..MaxElements },
        outputs \in UNION { [1..n -> OutputElements] : n \in 0..MaxElements } }

InitRoundTrip ==
    /\ Idle
    /\ call \in { Call("generate_parse", parsed_doc) : parsed_doc \in ParsedDocuments }

GenerateParse ==
    /\ call.op = "generate_parse" /\ ~call.done
    /\ Return([container |-> generate(call.arg), document |-> parse(generate(call.arg))])

NextRoundTrip == GenerateParse

SpecRoundTrip == InitRoundTrip /\ [][NextRoundTrip]_vars

(***************************************************************************)
(* The case tree of a modeling document "r" with at most MaxPoints test    *)
(* points and at most MaxCases cases; case ids may repeat, and a case may  *)
(* name a point the document does not have                                 *)
(***************************************************************************)
MaxPoints == 2
MaxCases == 2

ContextOf(segments) == Join(<<" ", "/", " ">>, segments)

CasePointKinds ==
    { [point_type |-> "process",
       context |-> ContextOf(<< <<"r">>, <<"c">>, <<"t">>, <<"s">>, <<"business_process">> >>)],
      [point_type |-> "rule",
       context |-> ContextOf(<< <<"r">>, <<"c">>, <<"t">>, <<"s">>, <<"business_rule">> >>)],
      [point_type |-> "page_control",
       context |-> ContextOf(<< <<"r">>, <<"c">>, <<"t">>, <<"s">>, <<"page_control">> >>)],
      [point_type |-> "process",
       context |-> ContextOf(<< <<"r">>, <<"a">>, <<"business_process">> >>)],
      [point_type |-> "rule",
       context |-> ContextOf(<< <<"r">>, <<"c">>, <<"t">>, <<"business_rule">> >>)] }

PointIdText(k) == <<"TP">> \o IndexText(k)

CasePoint(k, kind) ==
    [point_id |-> PointIdText(k), point_type |-> kind.point_type, subtype |-> None,
     priority |-> 1, text |-> kind.context \o <<" ", "-", " ", "p">>,
     context |-> kind.context]

CaseDocuments ==
    { [document_type |-> "modeling", document_number |-> <<>>, requirement_name |-> <<"r">>,
       test_points |-> [k \in 1..n |-> CasePoint(k, kinds[k])]] :
        <<n, kinds>> \in UNION { {n} \X [1..n -> CasePointKinds] : n \in 0..MaxPoints } }

\* the case with the id for the k-th point of the document, or for a
\* rule point the document lacks
CaseFor(parsed, case_id, k) ==
    LET known == k <= Len(parsed.test_points)
        context == IF known THEN parsed.test_points[k].context
                   ELSE ContextOf(<< <<"r">>, <<"c">>, <<"t">>, <<"s">>, <<"business_rule">> >>)
    IN  [case_id |-> <<case_id>>, point_id |-> PointIdText(k),
         point_type |-> IF known THEN parsed.test_points[k].point_type ELSE "rule",
         subtype |-> None, priority |-> NoPriority,
         text |-> context \o <<" ", "-", " ", case_id>>,
         preconditions |-> <<>>, steps |-> << <<"s1">> >>, expected_results |-> << <<"e1">> >>]

CaseLists(parsed) ==
    UNION { [1..n -> { CaseFor(parsed, case_id, k) : case_id \in {"C1", "C2"}, k \in 1..MaxPoints }] :
            n \in 0..MaxCases }

InitCaseTree ==
    /\ Idle
    /\ call \in { Call("case_tree", [parsed |-> parsed, cases |-> cases]) :
                     <<parsed, cases>> \in
                       UNION { {parsed} \X CaseLists(parsed) : parsed \in CaseDocuments } }

CaseTree ==
    /\ call.op = "case_tree" /\ ~call.done
    /\ Return(Case_create_content_xml(call.arg.parsed, call.arg.cases))

NextCaseTree == CaseTree

SpecCaseTree == InitCaseTree /\ [][NextCaseTree]_vars

(***************************************************************************)
(* _parse_test_point on a topic N with two to MaxChildren child topics,    *)
(* each the head of a subtree of one of FanShapes: a leaf, a path of one   *)
(* to four topics, paths that branch at the child or at the grandchild,    *)
(* and paths with a topic without a title.  A shape lists for each of its  *)
(* topics the topic above it (0: N itself) and says which have no title.   *)
(***************************************************************************)
MaxChildren == 3

FanShapes ==
    { [above |-> <<0>>, blank |-> {}],
      [above |-> <<0, 1>>, blank |-> {}],
      [above |-> <<0, 1, 2>>, blank |-> {}],
      [above |-> <<0, 1, 2, 3>>, blank |-> {}],
      [above |-> <<0, 1, 1>>, blank |-> {}],
      [above |-> <<0, 1, 2, 1>>, blank |-> {}],
      [above |-> <<0, 1, 2, 2>>, blank |-> {}],
      [above |-> <<0, 1, 2, 1>>, blank |-> {4}],
      [above |-> <<0, 1, 2>>, blank |-> {3}] }

\* the title of the k-th topic of the subtree of child c
FanTitle(c, k) ==
    <<CASE c = 1 -> "a" [] c = 2 -> "b" [] c = 3 -> "c" [] OTHER -> "d",
      CASE k = 1 -> "1" [] k = 2 -> "2" [] k = 3 -> "3" [] OTHER -> "4">>

\* the tree with the subtree of `shape` added below topic `at` as child c
Graft(tree, at, shape, c) ==
    LET n == Len(tree.parent)
    IN  [parent |-> tree.parent \o
                    [k \in DOMAIN shape.above |->
                        IF shape.above[k] = 0 THEN at ELSE n + shape.above[k]],
         topic |-> tree.topic \o
                    [k \in DOMAIN shape.above |->
                        Topic(IF k \in shape.blank THEN <<>> ELSE FanTitle(c, k), <<>>, <<>>)]]

RECURSIVE GraftAll(_, _, _, _)
GraftAll(tree, at, shapes, c) ==
    IF c > Len(shapes) THEN tree
    ELSE GraftAll(Graft(tree, at, shapes[c], c), at, shapes, c + 1)

FanTrees ==
    { GraftAll([parent |-> <<0>>, topic |-> <<Topic(<<"n">>, <<>>, <<>>)>>], 1, shapes, 1) :
        shapes \in UNION { [1..n -> FanShapes] : n \in 2..MaxChildren } }

InitFan ==
    /\ Idle
    /\ call \in { Call("_parse_test_point",
                       [tree |-> t, point_type |-> ty,
                        context |-> _build_context(<<<<"r">>, <<SectionOf(ty)>>>>)]) :
                    t \in FanTrees, ty \in {"process", "rule", "page_control"} }

NextFan == ParseTestPoint

SpecFan == InitFan /\ [][NextFan]_vars

(***************************************************************************)
(* _parse_test_point on the topics of PriorityTrees: a topic with or       *)
(* without a marker and a numeral of its own, alone or with two leaf       *)
(* children (depth 1) that carry a priority marker, a wrong marker or no   *)
(* marker                                                                  *)
(***************************************************************************)
InitInherit ==
    /\ Idle
    /\ call \in { Call("_parse_test_point",
                       [tree |-> t, point_type |-> ty,
                        context |-> _build_context(<<<<"r">>, <<SectionOf(ty)>>>>)]) :
                    t \in PriorityTrees, ty \in {"process", "rule"} }

NextInherit == ParseTestPoint

SpecInherit == InitInherit /\ [][NextInherit]_vars

(***************************************************************************)
(* parse on a well-formed container whose root topic has one section       *)
(* topic, with one to MaxChildren topics below it, each the head of a      *)
(* subtree of one of FanShapes                                             *)
(***************************************************************************)
StatsTrees ==
    { GraftAll([parent |-> <<0, 1>>,
                topic |-> <<Topic(<<"r">>, <<>>, <<>>), Topic(section, <<>>, <<>>)>>],
               2, shapes, 1) :
        section \in {<<"business_rule">>, <<"page_control">>},
        shapes \in UNION { [1..n -> FanShapes] : n \in 1..MaxChildren } }

InitStats ==
    /\ Idle
    /\ call \in { Call("parse", [content |-> TRUE, well_formed |-> TRUE, sheet |-> TRUE,
                                  root_topic |-> TRUE, tree |-> t]) : t \in StatsTrees }

NextStats == Parse

SpecStats == InitStats /\ [][NextStats]_vars

(***************************************************************************)
(* TaskManager (utils/task_manager.py) and the poll loop of /parse-doc     *)
(* (api/routes.py).  A document-parse task is run by a worker of the       *)
(* doc_parser pool, which writes the fields of the Task object one         *)
(* assignment at a time, while the request that uploaded the document      *)
(* reads them from the event loop's thread.  No lock is held by either     *)
(* side while it reads or writes a field (get_task releases _lock before   *)
(* it returns the object), so every interleaving of the assignments and    *)
(* the reads is a run.                                                     *)
(*   status, result, error   the fields of Task                            *)
(*   wpc       position of task_wrapper                                    *)
(*   ppc       position of the poll loop (the line it executes next)       *)
(*   polls     iterations of the poll loop that ended in a sleep           *)
(*   response  what the request returned (message None while it polls)    *)
(***************************************************************************)
MaxUploads == 2
\* iterations of the poll loop before its timeout of 50 s (500 ms each)
MaxPolls == 3

NewParseTask ==
    [status |-> "pending", result |-> None, error |-> None,
     wpc |-> "queued", ppc |-> "line131", polls |-> 0,
     response |-> [success |-> FALSE, message |-> None]]

\* routes.py 100-120: create_task and submit_task
UploadDocument ==
    /\ Len(parse_tasks) < MaxUploads
    /\ parse_tasks' = Append(parse_tasks, NewParseTask)
    /\ UNCHANGED <<call, doc, points, previews, tasks, records, enableRuleBatch>>

\* task_wrapper, lines 84-86
TaskWrapperStart(k) ==
    /\ parse_tasks[k].wpc = "queued"
    /\ parse_tasks' = [parse_tasks EXCEPT ![k].status = "processing", ![k].wpc = "line89"]
    /\ UNCHANGED <<call, doc, points, previews, tasks, records, enableRuleBatch>>

\* line 89: task_func returns a result or raises
TaskFunc(k) ==
    /\ parse_tasks[k].wpc = "line89"
    /\ \E returned \in BOOLEAN :
          parse_tasks' = [parse_tasks EXCEPT ![k].wpc = IF returned THEN "line91" ELSE "line98"]
    /\ UNCHANGED <<call, doc, points, previews, tasks, records, enableRuleBatch>>

\* line 91: task.status = TaskStatus.COMPLETED
SetCompleted(k) ==
    /\ parse_tasks[k].wpc = "line91"
    /\ parse_tasks' = [parse_tasks EXCEPT ![k].status = "completed", ![k].wpc = "line93"]
    /\ UNCHANGED <<call, doc, points, previews, tasks, records, enableRuleBatch>>

\* line 93: task.result = result
SetResult(k) ==
    /\ parse_tasks[k].wpc = "line93"
    /\ parse_tasks' = [parse_tasks EXCEPT ![k].result = "result", ![k].wpc = "end"]
    /\ UNCHANGED <<call, doc, points, previews, tasks, records, enableRuleBatch>>

\* line 98: task.status = TaskStatus.FAILED
SetFailed(k) ==
    /\ parse_tasks[k].wpc = "line98"
    /\ parse_tasks' = [parse_tasks EXCEPT ![k].status = "failed", ![k].wpc = "line100"]
    /\ UNCHANGED <<call, doc, points, previews, tasks, records, enableRuleBatch>>

\* line 100: task.error = str(e)
SetError(k) ==
    /\ parse_tasks[k].wpc = "line100"
    /\ parse_tasks' = [parse_tasks EXCEPT ![k].error = "error", ![k].wpc = "end"]
    /\ UNCHANGED <<call, doc, points, previews, tasks, records, enableRuleBatch>>

\* the response of the except block of routes.py 156-167 to a ValueError
Failure(message) == [success |-> FALSE, message |-> message]

\* routes.py 131: if task.status == TaskStatus.COMPLETED
PollCompleted(k) ==
    /\ parse_tasks[k].ppc = "line131"
    /\ parse_tasks' = [parse_tasks EXCEPT
            ![k].ppc = IF parse_tasks[k].status = "completed" THEN "line132" ELSE "line137"]
    /\ UNCHANGED <<call, doc, points, previews, tasks, records, enableRuleBatch>>

\* routes.py 132-135: the result is returned, or a ValueError raised
PollResult(k) ==
    /\ parse_tasks[k].ppc = "line132"
    /\ parse_tasks' = [parse_tasks EXCEPT
            ![k].ppc = "returned",
            ![k].response =
                IF parse_tasks[k].result # None THEN [success |-> TRUE, message |-> "result"]
                ELSE Failure(IF parse_tasks[k].error # None THEN parse_tasks[k].error
                             ELSE "completed without result")]
    /\ UNCHANGED <<call, doc, points, previews, tasks, records, enableRuleBatch>>

\* routes.py 137-152: if task.status == TaskStatus.FAILED; otherwise the
\* timeout is tested and the loop sleeps
PollFailed(k) ==
    /\ parse_tasks[k].ppc = "line137"
    /\ parse_tasks' = [parse_tasks EXCEPT ![k] =
            IF parse_tasks[k].status = "failed" THEN [@ EXCEPT !.ppc = "line138"]
            ELSE IF parse_tasks[k].polls >= MaxPolls
            THEN [@ EXCEPT !.ppc = "returned", !.response = Failure("timeout")]
            ELSE [@ EXCEPT !.ppc = "line131", !.polls = @ + 1]]
    /\ UNCHANGED <<call, doc, points, previews, tasks, records, enableRuleBatch>>

\* routes.py 138: raise ValueError(task.error or ...)
PollError(k) ==
    /\ parse_tasks[k].ppc = "line138"
    /\ parse_tasks' = [parse_tasks EXCEPT
            ![k].ppc = "returned",
            ![k].response = Failure(IF parse_tasks[k].error # None THEN parse_tasks[k].error
                                    ELSE "failed")]
    /\ UNCHANGED <<call, doc, points, previews, tasks, records, enableRuleBatch>>

InitParseDoc == Idle /\ call = NoCall

NextParseDoc ==
    \/ UploadDocument
    \/ \E k \in DOMAIN parse_tasks : TaskWrapperStart(k)
    \/ \E k \in DOMAIN parse_tasks : TaskFunc(k)
    \/ \E k \in DOMAIN parse_tasks : SetCompleted(k)
    \/ \E k \in DOMAIN parse_tasks : SetResult(k)
    \/ \E k \in DOMAIN parse_tasks : SetFailed(k)
    \/ \E k \in DOMAIN parse_tasks : SetError(k)
    \/ \E k \in DOMAIN parse_tasks : PollCompleted(k)
    \/ \E k \in DOMAIN parse_tasks : PollResult(k)
    \/ \E k \in DOMAIN parse_tasks : PollFailed(k)
    \/ \E k \in DOMAIN parse_tasks : PollError(k)

SpecParseDoc == InitParseDoc /\ [][NextParseDoc]_vars

(***************************************************************************)
(* Properties                                                              *)
(***************************************************************************)
Terminal == {"completed", "failed"}

\* the cases a task was created with, and the cases its run added
SeedCount(task) == task.total - Len(task.points)
SeedCases(task) == SubSeq(task.cases, 1, SeedCount(task))
RunCases(task) == SubSeq(task.cases, SeedCount(task) + 1, Len(task.cases))

\* the worker has left _run_task
RunOver(task) == task.pc \in {"done", "crashed"}

StatusStep(old, new) ==
    \/ new = old
    \/ old = "pending" /\ new = "processing"
    \/ old = "processing" /\ new \in Terminal

\* C1: a task's status only moves pending -> processing -> completed or
\* failed, and a completed or failed status never changes again, whatever
\* the service and the store return or raise.
C1_StatusLinear ==
    [][\A t \in DOMAIN tasks : StatusStep(tasks[t].status, tasks'[t].status)]_vars

\* C2: no submitted task is stranded: once its worker has left _run_task
\* (every call having returned or raised), its status is completed or
\* failed.
C2_RunEndsTerminal ==
    \A t \in DOMAIN tasks : RunOver(tasks[t]) => tasks[t].status \in Terminal

\* progress a <= progress b, as fractions
ProgressLeq(a, b) == a[1] * b[2] <= b[1] * a[2]

\* C3: between any two successive observations of a task, seeded or not,
\* its progress does not decrease.
C3_ProgressMonotone ==
    [][\A t \in DOMAIN tasks : ProgressLeq(tasks[t].progress, tasks'[t].progress)]_vars

\* a seeded task whose run has both produced a case and failed a point
C3_Witness ==
    \E t \in DOMAIN tasks :
        /\ SeedCount(tasks[t]) > 0
        /\ tasks[t].failed > 0
        /\ tasks[t].completed > SeedCount(tasks[t])
        /\ tasks[t].progress = <<tasks[t].completed + tasks[t].failed, tasks[t].total>>

\* C4: no two cases of a task have the same point_id, seeded tasks included.
C4_UniquePointIds ==
    \A t \in DOMAIN tasks :
        \A i, j \in DOMAIN tasks[t].cases :
            i # j => tasks[t].cases[i] # tasks[t].cases[j]

\* a task seeded by confirm whose run has added cases of both stages
C4_Witness ==
    \E t \in DOMAIN tasks :
        /\ tasks[t].seed_preview # 0
        /\ SeedCount(tasks[t]) > 0
        /\ Len(RunCases(tasks[t])) >= 2

\* the exceptions that are not failures of the generation service
Unexpected == {"validation error", "persistence error"}

\* the process and rule points of a task for which its run produced no case
Unproduced(task) ==
    {p \in Range(task.points) :
        points[p].point_type \in {"process", "rule"} /\ p \notin Range(RunCases(task))}

AllRuleCallsFailed(task) ==
    task.rjobs # <<>> /\ \A i \in DOMAIN task.rjobs : task.rjobs[i].all_failed

\* C5: a rule batch of n points on which every service request fails takes
\* at most 2n-1 batch requests and n single-point requests (exactly that
\* many once it has returned) and returns no case; the task records every
\* such point as failed and is completed, not failed.
C5_AllFailingBatch ==
    \A t \in DOMAIN tasks :
        /\ \A i \in DOMAIN tasks[t].rjobs :
              LET job == tasks[t].rjobs[i]
                  n == Len(job.batch)
              IN  job.all_failed =>
                    /\ job.batch_calls <= 2 * n - 1
                    /\ job.single_calls <= n
                    /\ job.cases = <<>>
                    /\ job.state # "raised"
                    /\ job.state \in {"done", "joined"} =>
                          job.batch_calls = 2 * n - 1 /\ job.single_calls = n
        /\ (AllRuleCallsFailed(tasks[t]) /\ tasks[t].pc \in {"persist", "done"}) =>
              /\ tasks[t].failed = Cardinality(Unproduced(tasks[t]))
              /\ \A i \in DOMAIN tasks[t].rjobs :
                    Range(tasks[t].rjobs[i].batch) \subseteq Unproduced(tasks[t])
              /\ tasks[t].error = None => tasks[t].status = "completed"

\* a finished task with a rule batch of two points and a rule batch of one
\* point, every request of which failed
C5_Witness ==
    \E t \in DOMAIN tasks :
        /\ tasks[t].pc = "done"
        /\ tasks[t].status = "completed"
        /\ AllRuleCallsFailed(tasks[t])
        /\ \E i \in DOMAIN tasks[t].rjobs : Len(tasks[t].rjobs[i].batch) >= 2
        /\ tasks[t].failed >= 3

\* C6: failures of the generation service never make a task failed: a
\* failed task has met an exception of another kind, and a run that met
\* none ends completed with failed = the number of process and rule points
\* without a case.
C6_ServiceFailureIsNotFatal ==
    \A t \in DOMAIN tasks :
        /\ tasks[t].status = "failed" => tasks[t].error \in Unexpected
        /\ (tasks[t].pc \in {"persist", "done"} /\ tasks[t].error = None) =>
              /\ tasks[t].status = "completed"
              /\ tasks[t].failed = Cardinality(Unproduced(tasks[t]))

\* a completed task in which a process point failed and a rule batch
\* request failed while another point of that batch got its case
C6_Witness ==
    \E t \in DOMAIN tasks :
        /\ tasks[t].pc = "done"
        /\ tasks[t].status = "completed"
        /\ \E p \in Unproduced(tasks[t]) : points[p].point_type = "process"
        /\ \E i \in DOMAIN tasks[t].rjobs :
              /\ tasks[t].rjobs[i].batch_calls > 1
              /\ tasks[t].rjobs[i].cases # <<>>
              /\ Len(tasks[t].rjobs[i].cases) < Len(tasks[t].rjobs[i].batch)

\* C7: after an unexpected exception inside _run_task the task is failed
\* with the exception's message, and every case produced before it,
\* those returned by rule batch workers that finished included, is in
\* task.cases.
C7_CrashKeepsCases ==
    \A t \in DOMAIN tasks :
        (tasks[t].pc = "done" /\ tasks[t].error # None) =>
            /\ tasks[t].status = "failed"
            /\ tasks[t].error \in Unexpected
            /\ tasks[t].completed = Len(tasks[t].cases)
            /\ \A i \in DOMAIN tasks[t].rjobs :
                  tasks[t].rjobs[i].state \in {"done", "joined"} =>
                      Range(tasks[t].rjobs[i].cases) \subseteq Range(tasks[t].cases)

MetaJoined(task) == \A i \in DOMAIN task.mjobs : task.mjobs[i].state = "joined"
ProcessStarted(task) == task.pidx > 1 \/ RunCases(task) # <<>>
ProcessOver(task) == task.pidx > Len(task.pbatches)
RuleStarted(task) ==
    \/ \E i \in DOMAIN task.rjobs : task.rjobs[i].state # "queued"
    \/ task.ridx > 1

\* C8: within a task no process request is made before every metadata
\* batch is joined, and no rule request before every process batch is
\* done with its cases' steps in flow_steps_map.
C8_StagesOrdered ==
    \A t \in DOMAIN tasks :
        /\ (tasks[t].pc = "process" \/ ProcessStarted(tasks[t])) => MetaJoined(tasks[t])
        /\ (tasks[t].pc \in {"rule", "rule_seq"} \/ RuleStarted(tasks[t])) =>
              /\ MetaJoined(tasks[t])
              /\ ProcessOver(tasks[t])
              /\ \A p \in Range(RunCases(tasks[t])) :
                    points[p].point_type = "process" =>
                        <<_normalize_context_key(points[p].context), p>> \in tasks[t].flow

\* a rule request made after two metadata batches and a process case
C8_Witness ==
    \E t \in DOMAIN tasks :
        /\ Len(tasks[t].mjobs) >= 2
        /\ tasks[t].flow # {}
        /\ \E i \in DOMAIN tasks[t].rjobs : tasks[t].rjobs[i].batch_calls > 0

\* C9: the previewed point_ids and the points of the task that confirm
\* starts are disjoint, and together they are the points of the parsed
\* document whose priority is not 3.
C9_PreviewBulkPartition ==
    \A t \in DOMAIN tasks :
        tasks[t].seed_preview # 0 =>
            LET preview == previews[tasks[t].seed_preview]
            IN  /\ preview.point_ids \cap Range(tasks[t].points) = {}
                /\ preview.point_ids \cup Range(tasks[t].points)
                      = {p \in PointIds : Docs[doc][p].priority # 3}

\* C10: no two submitted tasks are seeded by the same preview entry.
C10_PreviewSeedsOnce ==
    \A t1, t2 \in DOMAIN tasks :
        (/\ t1 # t2
         /\ tasks[t1].seed_preview # 0
         /\ tasks[t1].pc # "unsubmitted"
         /\ tasks[t2].pc # "unsubmitted") =>
            tasks[t1].seed_preview # tasks[t2].seed_preview

PendingRow == [status |-> "pending", success_count |-> 0, fail_count |-> 0, json_path |-> FALSE]

InitialCases(task) ==
    IF task.seed_preview = 0 THEN <<>> ELSE previews[task.seed_preview].cases

\* C12: a task created with seed cases S and points P has total = |P| + |S|
\* and starts with cases = S and completed = |S|; at creation and after
\* every batch completed is the number of cases in task.cases, which begin
\* with S.
C12_CompletedCountsCases ==
    \A t \in DOMAIN tasks :
        LET task == tasks[t]
            S == InitialCases(task)
        IN  /\ task.total = Len(task.points) + Len(S)
            /\ task.completed = Len(task.cases)
            /\ Len(task.cases) >= Len(S)
            /\ SubSeq(task.cases, 1, Len(S)) = S
            /\ task.pc \in {"unsubmitted", "queued"} => task.cases = S

\* a seeded task whose run added cases to the seed and lost a point
C12_Witness ==
    \E t \in DOMAIN tasks :
        /\ tasks[t].seed_preview # 0
        /\ InitialCases(tasks[t]) # <<>>
        /\ tasks[t].pc = "done"
        /\ Len(tasks[t].cases) > Len(InitialCases(tasks[t]))
        /\ tasks[t].failed > 0

Clamp(x, lo, hi) == Max(lo, Min(hi, x))

\* the selection `ret` (indices into pts) is the first n of pts in
\* ascending order of the sort key
FirstInKeyOrder(pts, ret, n) ==
    /\ Len(ret) = n
    /\ \A i \in DOMAIN ret : ret[i] \in DOMAIN pts
    /\ \A i, j \in DOMAIN ret : i < j => ret[i] # ret[j] /\ ~KeyLess(pts[ret[j]], pts[ret[i]])
    /\ \A i \in DOMAIN ret : \A x \in DOMAIN pts \ Range(ret) : ~KeyLess(pts[x], pts[ret[i]])

\* C13: select_preview_points returns min(|candidates|, clamp(count ?? 4, 3, 5))
\* points, only an absent count defaulting to 4, and they are the first
\* ones in ascending order of (priority with unset last, point_type,
\* subtype).
C13_PreviewSelection ==
    (call.op = "select_preview_points" /\ call.done) =>
        LET count == call.arg.count
            target == Clamp(IF count = <<>> THEN 4 ELSE count[1], 3, 5)
        IN  FirstInKeyOrder(call.arg.points, call.ret, Min(Len(call.arg.points), target))

\* topic n has the titled chain a - b - c below it and nothing else titled
IsSingleChain(tree, n, a, b, c) ==
    /\ _get_title(tree, n) # <<>>
    /\ TitledChildren(tree, n) = <<a>>
    /\ TitledChildren(tree, a) = <<b>>
    /\ TitledChildren(tree, b) = <<c>>
    /\ TitledChildren(tree, c) = <<>>

CarriesWrong(tree, i) ==
    "symbol-wrong" \in Range(tree.topic[i].refs) \cup Range(tree.topic[i].attr)

OwnPriorityMarkers(tree, i) ==
    { m \in Range(tree.topic[i].refs) \cup Range(tree.topic[i].attr) :
        MarkerDigit(m) \in {<<1>>, <<2>>, <<3>>} }

\* the title begins with a numeral pattern: an optional opening
\* parenthesis, a digit 1..3 and a closing parenthesis, full stop or
\* ideographic comma
HasLeadingNumeral(title) ==
    LeadingNumeral(title, {"(", "FW("}, {")", "FW)", ".", "DUN"}).match

\* C15: a priority-N marker (N in 1..3) on the topic gives the priority,
\* whatever numeral the title begins with; without one a leading numeral
\* pattern gives the priority and is stripped from the text; without
\* either the priority is unset.
C15_PriorityResolution ==
    (call.op = "_parse_priority" /\ call.done) =>
        LET tree == call.arg.tree
            title == _get_title(tree, 1)
            own == OwnPriorityMarkers(tree, 1)
        IN  /\ own # {} => \E m \in own : <<call.ret.priority>> = MarkerDigit(m)
            /\ (own = {} /\ HasLeadingNumeral(title)) =>
                  /\ call.ret.priority \in 1..3
                  /\ Len(call.ret.title) < Len(title)
                  /\ ~HasLeadingNumeral(call.ret.title)
            /\ (own = {} /\ ~HasLeadingNumeral(title)) =>
                  call.ret.priority = NoPriority /\ call.ret.title = title

\* C16: the process section with the leaf children "step A" and
\* "(circled 2) step B" decodes to exactly two process points, the first
\* with priority unset and title "step A", the second with priority 2 and
\* title "step B".
C16_ProcessSectionExample ==
    (/\ call.op = "parse" /\ call.done
     /\ _get_title(call.arg.tree, 2) = <<"business_process">>
     /\ call.arg.tree.topic[3].title = StepA
     /\ call.arg.tree.topic[4].title = <<"circled2">> \o StepB) =>
        LET context == _build_context(<<<<"r">>, <<"business_process">>>>)
        IN  /\ call.ret.ok
            /\ Len(call.ret.test_points) = 2
            /\ \A k \in 1..2 : call.ret.test_points[k].point_type = "process"
            /\ call.ret.test_points[1].priority = NoPriority
            /\ call.ret.test_points[1].text = _build_point_text(context, StepA)
            /\ call.ret.test_points[2].priority = 2
            /\ call.ret.test_points[2].text = _build_point_text(context, StepB)

\* the positions at which a word of the set ends in the text
MatchEnds(words, text) ==
    { e \in 1..Len(text) : \E word \in words : OccursAt(word, text, e - Len(word) + 1) }

LastMatch(words, text) ==
    IF MatchEnds(words, text) = {} THEN 0
    ELSE CHOOSE m \in MatchEnds(words, text) : \A e \in MatchEnds(words, text) : e <= m

\* C17 as stated: without any keyword the subtype is unset; otherwise the
\* keyword set whose last match lies further right in the text decides.
C17_RightmostKeyword ==
    (call.op = "_detect_subtype" /\ call.done) =>
        LET pos == LastMatch(positive_keywords, call.arg)
            neg == LastMatch(negative_keywords, call.arg)
        IN  /\ (pos = 0 /\ neg = 0) => call.ret = None
            /\ pos > neg => call.ret = "positive"
            /\ neg > pos => call.ret = "negative"

\* C17 (amended): the subtype is unset when the text has no keyword or has
\* keywords of both sets, wherever they stand; it is negative when only
\* negative keywords occur and positive when only positive keywords occur.
\* A text with "bu tong guo" or "bu yi1 zhi" is therefore never negative.
C17_BothSetsAmbiguous ==
    (call.op = "_detect_subtype" /\ call.done) =>
        LET pos == MatchEnds(positive_keywords, call.arg)
            neg == MatchEnds(negative_keywords, call.arg)
        IN  /\ (pos = {} /\ neg = {}) => call.ret = None
            /\ (pos # {} /\ neg # {}) => call.ret = None
            /\ (pos = {} /\ neg # {}) => call.ret = "negative"
            /\ (pos # {} /\ neg = {}) => call.ret = "positive"
            /\ (Contains(call.arg, <<"bu", "tong", "guo">>)
                   \/ Contains(call.arg, <<"bu", "yi1", "zhi">>)) => call.ret = None

\* a text with "shi1 bai" before "cheng gong" was classified
C17_Witness ==
    /\ call.op = "_detect_subtype" /\ call.done
    /\ LastMatch(positive_keywords, call.arg) > LastMatch(negative_keywords, call.arg)
    /\ LastMatch(negative_keywords, call.arg) > 0
    /\ call.ret = None

\* the errors parse raises for a malformed container (lines 34, 38, 80, 82)
MalformedContainer ==
    { "ValueError: no content.xml", "ValueError: no sheet", "ValueError: no root topic" }

\* C18: parse fails, with a malformed-container error, exactly when the
\* container lacks its content part or the content lacks the sheet or the
\* root topic; for every other container it returns a document, whatever
\* the depth and shape of the tree.
C18_ParseFailsOnlyOnMissingParts ==
    (call.op = "parse" /\ call.done) =>
        IF call.arg.content /\ call.arg.sheet /\ call.arg.root_topic
        THEN call.ret.ok
        ELSE ~call.ret.ok /\ call.ret.error \in MalformedContainer

\* the same for containers whose content.xml is well-formed XML, and the
\* decoded points of a tree are those of its titled subtrees of depth <= 3
ParseOfWellFormed ==
    (call.op = "parse" /\ call.done /\ (call.arg.content => call.arg.well_formed)) =>
        IF call.arg.content /\ call.arg.sheet /\ call.arg.root_topic
        THEN /\ call.ret.ok
             /\ LET tree == call.arg.tree
                     kept == { i \in DOMAIN tree.parent :
                                 /\ tree.parent[i] = 2 /\ _get_title(tree, i) # <<>>
                                 /\ _max_depth(tree, i) <= 3 }
                 IN  /\ (kept = {}) = (call.ret.test_points = <<>>)
                     /\ Len(call.ret.test_points) >= Cardinality(kept)
        ELSE ~call.ret.ok /\ call.ret.error \in MalformedContainer

\* the points of the decoded document that are page_control points of the
\* context
PageControlPoints(document, context) ==
    FilterSeq(document.test_points,
              { point \in Range(document.test_points) :
                  point.point_type = "page_control" /\ point.context = context })

\* C19: decoding what the encoder wrote succeeds, and the element lines
\* under a page-control topic come back, one page_control point each, in
\* the context made of the titles from the root topic down to that topic.
C19_RoundTrip ==
    (call.op = "generate_parse" /\ call.done) =>
        LET tree == call.ret.container.tree
            document == call.ret.document
        IN  /\ document.ok
            /\ \A branch \in DOMAIN tree.parent :
                  (tree.topic[branch].title = <<"page_control">>
                     /\ _get_children(tree, branch) # <<>>) =>
                    LET lines == [k \in DOMAIN _get_children(tree, branch) |->
                                    tree.topic[_get_children(tree, branch)[k]].title]
                        context == Join(<<" ", "/", " ">>,
                                        Append(PathAbove(tree, branch), <<"page_control">>))
                        back == PageControlPoints(document, context)
                    IN  /\ Len(back) = Len(lines)
                        /\ \A k \in DOMAIN lines :
                              back[k].text = context \o <<" ", "-", " ">> \o lines[k]

\* the fixed branch for a point type
BranchTitle(point_type) ==
    CASE point_type = "process" -> <<"business_process">>
      [] point_type = "rule" -> <<"business_rule">>
      [] OTHER -> <<"page_control">>

\* the case topics with the title: children of a fixed branch
CaseTopics(tree, title) ==
    { i \in DOMAIN tree.parent :
        /\ tree.topic[i].title = title
        /\ tree.parent[i] # 0
        /\ tree.topic[tree.parent[i]].title \in Range(FixedNodes) }

\* C20: every attached case has exactly one case topic, under the fixed
\* branch of its point_type (process: business process, rule: business
\* rule, page_control: page control) of a node whose titles below the root
\* occur contiguously in the case's context path.
C20_CaseUnderBranchOfItsType ==
    (call.op = "case_tree" /\ call.done) =>
        \A case_id \in call.ret.attached :
            LET tree == call.ret.tree
                topics == CaseTopics(tree, case_id)
            IN  /\ Cardinality(topics) = 1
                /\ \A i \in topics :
                      \E k \in DOMAIN call.arg.cases :
                          LET case == call.arg.cases[k]
                              branch == tree.parent[i]
                          IN  /\ case.case_id = case_id
                              /\ tree.topic[branch].title = BranchTitle(case.point_type)
                              /\ _contains_sequence(
                                    _split_context(_extract_context(case.text)),
                                    Tail(PathAbove(tree, branch)))

\* the points of the process batches and of the rule batches joined so far
RECURSIVE BatchPoints(_)
BatchPoints(batches) ==
    IF batches = <<>> THEN <<>> ELSE Head(batches) \o BatchPoints(Tail(batches))

JoinedRuleBatches(task) ==
    [k \in DOMAIN task.rjobs |->
        IF task.rjobs[k].state = "joined" THEN task.rjobs[k].batch ELSE <<>>]

SplitStep(t, i) ==
    LET old == tasks[t].mjobs[i].stack
        new == tasks'[t].mjobs[i].stack
    IN  /\ old # <<>>
        /\ Len(new) = Len(old) + 1
        /\ new[1].batch \o new[2].batch = Head(old).batch

\* C22: a metadata batch whose request failed is requested once more
\* unchanged before anything else: a batch is split into halves only when
\* the failed request was already its second one.
C22_RetryBeforeSplit ==
    [][\A t \in DOMAIN tasks : \A i \in DOMAIN tasks[t].mjobs :
          (t \in DOMAIN tasks' /\ i \in DOMAIN tasks'[t].mjobs /\ SplitStep(t, i)) =>
              Head(tasks[t].mjobs[i].stack).attempt >= 2]_vars

\* `child` has exactly one titled child, which has exactly one titled child
HeadsChain(tree, child) ==
    \E b, c \in DOMAIN tree.parent :
        /\ Range(TitledChildren(tree, child)) = {b}
        /\ Range(TitledChildren(tree, b)) = {c}

\* C23: for a node with more than one titled child and depth 2 or 3: when
\* every child heads a chain child - one grandchild - one great-grandchild
\* the node yields one manual_case point per child (preconditions, steps
\* and expected results being the three titles of that child's chain);
\* when any child does not, it yields exactly one point, not a
\* manual_case, for the whole node; with depth above 3 it yields no point.
C23_FanOutChains ==
    (call.op = "_parse_test_point" /\ call.done) =>
        LET tree == call.arg.tree
            children == TitledChildren(tree, 1)
            depth == _max_depth(tree, 1)
            ret == call.ret.points
        IN  Len(children) > 1 =>
              /\ depth > 3 => ret = <<>>
              /\ (depth \in {2, 3} /\ \A k \in DOMAIN children : HeadsChain(tree, children[k])) =>
                    /\ Len(ret) = Len(children)
                    /\ \A k \in DOMAIN children :
                          LET b == TitledChildren(tree, children[k])[1]
                              c == TitledChildren(tree, b)[1]
                          IN  /\ ret[k].manual_case
                              /\ ret[k].preconditions = <<_get_title(tree, children[k])>>
                              /\ ret[k].steps = <<_get_title(tree, b)>>
                              /\ ret[k].expected_results = <<_get_title(tree, c)>>
              /\ (depth \in {2, 3} /\ \E k \in DOMAIN children : ~HeadsChain(tree, children[k])) =>
                    /\ Len(ret) = 1
                    /\ ~ret[1].manual_case

\* a node of depth 3 with three children that all head a chain, one of
\* them next to a topic without a title, has returned its points
C23_Witness ==
    /\ call.op = "_parse_test_point" /\ call.done
    /\ Len(TitledChildren(call.arg.tree, 1)) = 3
    /\ _max_depth(call.arg.tree, 1) = 3
    /\ \A k \in 1..3 : HeadsChain(call.arg.tree, TitledChildren(call.arg.tree, 1)[k])
    /\ \E i \in DOMAIN call.arg.tree.parent : call.arg.tree.topic[i].title = <<>>
    /\ Len(call.ret.points) = 3

\* C24: when a task's status is completed, completed + failed = total:
\* every point of the task, of whatever type, was counted as completed or
\* as failed.
C24_CompletedCountsEveryPoint ==
    \A t \in DOMAIN tasks :
        tasks[t].status = "completed" => tasks[t].completed + tasks[t].failed = tasks[t].total

\* C25: whoever observes a document-parse task with status completed
\* finds its result set, and with status failed its error set; and the
\* poll loop of /parse-doc answers with a failure other than its timeout
\* only for a task whose function raised.
C25_TerminalStatusHasOutcome ==
    \A k \in DOMAIN parse_tasks :
        LET task == parse_tasks[k]
        IN  /\ task.status = "completed" => task.result # None
            /\ task.status = "failed" => task.error # None
            /\ (task.response.message \notin {None, "timeout"} /\ ~task.response.success) =>
                  task.wpc \in {"line98", "line100"} \/ (task.wpc = "end" /\ task.error # None)

\* C26: once a TestPoint's subtype (priority) has a value, no metadata
\* fill changes it, also when several tasks fill the same cached TestPoint
\* objects at once; and a metadata fill changes no other field.
C26_FilledMetadataIsStable ==
    [][\A p \in DOMAIN points :
          /\ points[p].subtype # None => points'[p].subtype = points[p].subtype
          /\ points[p].priority # NoPriority => points'[p].priority = points[p].priority
          /\ points'[p].point_type = points[p].point_type
          /\ points'[p].context = points[p].context]_vars

\* the most recent task submitted under the session of task t is t itself
MostRecent(t) ==
    /\ tasks[t].pc # "unsubmitted"
    /\ \A u \in DOMAIN tasks :
          (u > t /\ tasks[u].session_id = tasks[t].session_id) => tasks[u].pc = "unsubmitted"

\* C27: when a session is submitted again while its earlier task still
\* runs, the session's record never shows a terminal status while the
\* most recent task is pending or processing: the terminal update of the
\* earlier task does not overwrite the record that the resubmission reset.
C27_RecordFollowsMostRecentTask ==
    \A t \in DOMAIN tasks :
        (MostRecent(t) /\ tasks[t].status \in {"pending", "processing"}) =>
            records[tasks[t].session_id].status \notin Terminal

\* C28: whenever a task is observed with status completed, its case list
\* has been written to the blob and its session's record already has
\* status completed, success_count = completed and fail_count = failed.
C28_CompletedIsPersisted ==
    \A t \in DOMAIN tasks :
        tasks[t].status = "completed" =>
            LET record == records[tasks[t].session_id]
            IN  /\ record.json_path
                /\ record.status = "completed"
                /\ record.success_count = tasks[t].completed
                /\ record.fail_count = tasks[t].failed

\* the priority topic i has of its own: that of its priority marker, else
\* that of the numeral its title begins with, else unset
OwnPriorities(tree, i) ==
    LET own == OwnPriorityMarkers(tree, i)
        numeral == LeadingNumeral(_get_title(tree, i), {"(", "FW("}, {")", "FW)", ".", "DUN"})
    IN  IF own # {} THEN { MarkerDigit(m)[1] : m \in own }
        ELSE IF numeral.match THEN {numeral.priority}
        ELSE {NoPriority}

\* C29: in a depth-1 fan-out a child with neither a priority marker nor a
\* leading numeral of its own gets the priority the parent has of its own
\* (its marker, else its title numeral, else unset); a priority marker on
\* a sibling child does not change it.
C29_DepthOneInheritance ==
    (call.op = "_parse_test_point" /\ call.done /\ _max_depth(call.arg.tree, 1) = 1) =>
        LET tree == call.arg.tree
            children == TitledChildren(tree, 1)
        IN  /\ Len(call.ret.points) = Len(children)
            /\ \A k \in DOMAIN children :
                  (/\ OwnPriorityMarkers(tree, children[k]) = {}
                   /\ ~HasLeadingNumeral(_get_title(tree, children[k]))) =>
                      call.ret.points[k].priority \in OwnPriorities(tree, 1)

\* stats["by_type"][point_type] of _build_stats
by_type(pts, point_type) ==
    Cardinality({k \in DOMAIN pts : pts[k].point_type = point_type})

\* C30: for every tree, stats.total of the decoded document is the number
\* of its TestPoint records, and the sum of stats.by_type.
C30_TotalCountsPoints ==
    (call.op = "parse" /\ call.done /\ call.ret.ok) =>
        /\ call.ret.total = Len(call.ret.test_points)
        /\ call.ret.total = by_type(call.ret.test_points, "process")
                               + by_type(call.ret.test_points, "rule")
                               + by_type(call.ret.test_points, "page_control")

====
